---- MODULE Spec2Model ----
(***************************************************************************)
(* Model of drivers/hwmon/nct7904.c: the banked register accessor of the   *)
(* NCT7904D hardware monitor (bank-select cache under a mutex), the        *)
(* one-time capability detection of nct7904_probe, the channel lookup      *)
(* table and the hwmon read/write handlers for the PWM channels.           *)
(***************************************************************************)
EXTENDS Integers, Sequences, FiniteSets, TLC

(***************************************************************************)
(* Program constants (the #defines of the driver).                         *)
(***************************************************************************)
VENDOR_ID_REG == 122
NUVOTON_ID == 80
CHIP_ID_REG == 123
NCT7904_ID == 197
DEVICE_ID_REG == 124
BANK_SEL_REG == 255
BANK_0 == 0
BANK_2 == 2
BANK_3 == 3
BANK_MAX == 4
FANCTL_MAX == 4
FANCTL1_FMR_REG == 0
FANCTL1_OUT_REG == 16
VSEN1_HV_REG == 64
TEMP_CH1_HV_REG == 66
LTD_HV_REG == 98
FANIN1_HV_REG == 128
T_CPU1_HV_REG == 160
VT_ADC_CTRL0_REG == 32
VT_ADC_CTRL2_REG == 34
FANIN_CTRL0_REG == 36
DTS_T_CTRL0_REG == 38
DTS_T_CTRL1_REG == 39
VT_ADC_MD_REG == 46
PFE_REG == 0
TSI_CTRL_REG == 80
\* the -ERRNO of a failed i2c_smbus_* transfer, and the handlers' own errors
EIO == -5
ENODEV == -19
EINVAL == -22
EOPNOTSUPP == -95

(***************************************************************************)
(* Bounds of the model.                                                    *)
(***************************************************************************)
NThreads == 2
MaxOps == 3
MonOps == 2

Threads == 1..NThreads
Banks == 0..BANK_MAX
Byte == 0..255

\* bank_sel == -1: no bank is known to be selected (probe, line 482)
BankUnknown == 0 - 1

VARIABLES
    bank_sel,    \* data->bank_sel: the cached bank, or -1
    bank_lock,   \* data->bank_lock: 0 when free, else the owning thread
    chipBank,    \* the chip's bank-select register (register 0xFF)
    chipReg,     \* the chip's data registers, by <<bank, register>>
    pc,          \* per thread: where it is in its accessor call
    call,        \* per thread: the accessor call [kind, bank, reg, val]
    ret,         \* per thread: the local 'ret' of the accessor
    hi,          \* per thread: the local 'hi' of nct7904_read_reg16
    opid,        \* per thread: number of its current operation, counted in
                 \* the order the lock is taken; 0 before that (history)
    nops,        \* operations that have taken the lock so far (history)
    bus,         \* the transactions put on the bus, in order (history)
    fan_mode,    \* data->fan_mode[FANCTL_MAX], by channel 0..3
    fanin_mask,  \* data->fanin_mask
    vsen_mask,   \* data->vsen_mask
    tcpu_mask,   \* data->tcpu_mask
    enable_dts,  \* data->enable_dts
    has_dts,     \* data->has_dts
    probe_pc,    \* nct7904_probe: the read it is at, "off" when not running
    probe_i,     \* nct7904_probe: the local 'i' of the fan mode loop
    mask,        \* nct7904_probe: the local 'mask'
    probe_ret,   \* nct7904_probe: the value it returned
    registered,  \* the device was registered with the hwmon core
    tcpu_tent,   \* tcpu_mask as it was before the multi-function step (history)
    vis,         \* the last visibility query and its answer (history)
    req,         \* per thread: the hwmon request being served, with the
                 \* local 'index' of nct7904_read_in
    out,         \* per thread: the value stored through 'val' by a read
    det_pc,      \* nct7904_detect: the test it is at, "off" when not running
    det_ret,     \* nct7904_detect: the value it returned
    det_func,    \* nct7904_detect: what i2c_check_functionality answered
    info_type    \* nct7904_detect: info->type

accVars == <<bank_sel, bank_lock, chipBank, chipReg, pc, call, ret, hi,
             opid, nops, bus>>

\* what the accessor never touches
dataVars == <<fanin_mask, vsen_mask, tcpu_mask, enable_dts, has_dts, fan_mode>>
probeVars == <<probe_pc, probe_i, mask, probe_ret, registered, tcpu_tent>>
monVars == <<vis, req, out>>
detVars == <<det_pc, det_ret, det_func, info_type>>
rest == <<dataVars, probeVars, monVars, detVars>>

vars == <<accVars, rest>>

NoCall == [kind |-> "none", bank |-> 0, reg |-> 0, val |-> 0]

(***************************************************************************)
(* The chip: a byte read returns the register of the bank the chip has     *)
(* selected, whatever bank the driver believes is selected.                *)
(***************************************************************************)
ChipRead(reg) == chipReg[<<chipBank, reg>>]

ChipWritten(reg, val) == [chipReg EXCEPT ![<<chipBank, reg>>] = val]

\* One entry of the bus history.  chip: the chip's bank register when the
\* transaction was issued; before/after: data->bank_sel around the step.
BusEntry(t, kind, reg, val, ok, after) ==
    [op |-> opid[t], t |-> t, kind |-> kind, reg |-> reg, val |-> val,
     ok |-> ok, want |-> call[t].bank, chip |-> chipBank,
     before |-> bank_sel, after |-> after]

(***************************************************************************)
(* nct7904_bank_lock, first half: mutex_lock(&data->bank_lock).            *)
(***************************************************************************)
mutex_lock_unguarded(t) ==
    /\ pc[t] = "lock"
    /\ bank_lock' = t
    /\ pc' = [pc EXCEPT ![t] = "sel"]
    /\ nops' = nops + 1
    /\ opid' = [opid EXCEPT ![t] = nops + 1]
    /\ UNCHANGED <<bank_sel, chipBank, chipReg, call, ret, hi, bus, rest>>

mutex_lock(t) ==
    /\ pc[t] = "lock"
    /\ bank_lock = 0
    /\ bank_lock' = t
    /\ pc' = [pc EXCEPT ![t] = "sel"]
    /\ nops' = nops + 1
    /\ opid' = [opid EXCEPT ![t] = nops + 1]
    /\ UNCHANGED <<bank_sel, chipBank, chipReg, call, ret, hi, bus, rest>>

(***************************************************************************)
(* nct7904_bank_lock, second half: the cache test and the write of the     *)
(* bank-select register.  A failed transfer may or may not have reached    *)
(* the chip.                                                               *)
(***************************************************************************)
bank_lock_keep_on_error(t) ==
    /\ pc[t] = "sel"
    /\ IF bank_sel = call[t].bank
       THEN /\ ret' = [ret EXCEPT ![t] = 0]
            /\ UNCHANGED <<bank_sel, chipBank, bus>>
       ELSE \/ /\ chipBank' = call[t].bank
               /\ bank_sel' = call[t].bank
               /\ ret' = [ret EXCEPT ![t] = 0]
               /\ bus' = Append(bus, BusEntry(t, "sel", BANK_SEL_REG,
                                call[t].bank, TRUE, call[t].bank))
            \/ /\ chipBank' \in {chipBank, call[t].bank}
               /\ UNCHANGED bank_sel
               /\ ret' = [ret EXCEPT ![t] = EIO]
               /\ bus' = Append(bus, BusEntry(t, "sel", BANK_SEL_REG,
                                call[t].bank, FALSE, bank_sel))
    /\ pc' = [pc EXCEPT ![t] = "data"]
    /\ UNCHANGED <<bank_lock, chipReg, call, hi, opid, nops, rest>>

bank_lock_always_write(t) ==
    /\ pc[t] = "sel"
    /\ \/ /\ chipBank' = call[t].bank
          /\ bank_sel' = call[t].bank
          /\ ret' = [ret EXCEPT ![t] = 0]
          /\ bus' = Append(bus, BusEntry(t, "sel", BANK_SEL_REG,
                           call[t].bank, TRUE, call[t].bank))
       \/ /\ chipBank' \in {chipBank, call[t].bank}
          /\ bank_sel' = BankUnknown
          /\ ret' = [ret EXCEPT ![t] = EIO]
          /\ bus' = Append(bus, BusEntry(t, "sel", BANK_SEL_REG,
                           call[t].bank, FALSE, BankUnknown))
    /\ pc' = [pc EXCEPT ![t] = "data"]
    /\ UNCHANGED <<bank_lock, chipReg, call, hi, opid, nops, rest>>

bank_lock_select(t) ==
    /\ pc[t] = "sel"
    /\ IF bank_sel = call[t].bank
       THEN /\ ret' = [ret EXCEPT ![t] = 0]
            /\ UNCHANGED <<bank_sel, chipBank, bus>>
       ELSE \/ /\ chipBank' = call[t].bank
               /\ bank_sel' = call[t].bank
               /\ ret' = [ret EXCEPT ![t] = 0]
               /\ bus' = Append(bus, BusEntry(t, "sel", BANK_SEL_REG,
                                call[t].bank, TRUE, call[t].bank))
            \/ /\ chipBank' \in {chipBank, call[t].bank}
               /\ bank_sel' = BankUnknown
               /\ ret' = [ret EXCEPT ![t] = EIO]
               /\ bus' = Append(bus, BusEntry(t, "sel", BANK_SEL_REG,
                                call[t].bank, FALSE, BankUnknown))
    /\ pc' = [pc EXCEPT ![t] = "data"]
    /\ UNCHANGED <<bank_lock, chipReg, call, hi, opid, nops, rest>>

\* a read that goes on the bus whatever the bank selection returned
read_reg_data_unchecked(t) ==
    /\ pc[t] = "data"
    /\ call[t].kind = "readByte"
    /\ \/ /\ ret' = [ret EXCEPT ![t] = ChipRead(call[t].reg)]
          /\ bus' = Append(bus, BusEntry(t, "rd", call[t].reg,
                           ChipRead(call[t].reg), TRUE, bank_sel))
       \/ /\ ret' = [ret EXCEPT ![t] = EIO]
          /\ bus' = Append(bus, BusEntry(t, "rd", call[t].reg,
                           EIO, FALSE, bank_sel))
    /\ pc' = [pc EXCEPT ![t] = "release"]
    /\ UNCHANGED <<bank_sel, bank_lock, chipBank, chipReg, call, hi, opid, nops, rest>>

(***************************************************************************)
(* nct7904_read_reg: one byte read when the bank was selected.             *)
(***************************************************************************)
read_reg_data(t) ==
    /\ pc[t] = "data"
    /\ call[t].kind = "readByte"
    /\ IF ret[t] = 0
       THEN \/ /\ ret' = [ret EXCEPT ![t] = ChipRead(call[t].reg)]
               /\ bus' = Append(bus, BusEntry(t, "rd", call[t].reg,
                                ChipRead(call[t].reg), TRUE, bank_sel))
            \/ /\ ret' = [ret EXCEPT ![t] = EIO]
               /\ bus' = Append(bus, BusEntry(t, "rd", call[t].reg,
                                EIO, FALSE, bank_sel))
       ELSE UNCHANGED <<ret, bus>>
    /\ pc' = [pc EXCEPT ![t] = "release"]
    /\ UNCHANGED <<bank_sel, bank_lock, chipBank, chipReg, call, hi, opid, nops, rest>>

(***************************************************************************)
(* nct7904_read_reg16: the read of reg (kept in 'hi'), then the read of    *)
(* reg + 1 and the composition  ret |= hi << 8.                            *)
(***************************************************************************)
read_reg16_first(t) ==
    /\ pc[t] = "data"
    /\ call[t].kind = "readWord"
    /\ IF ret[t] = 0
       THEN \/ /\ ret' = [ret EXCEPT ![t] = ChipRead(call[t].reg)]
               /\ hi' = [hi EXCEPT ![t] = ChipRead(call[t].reg)]
               /\ bus' = Append(bus, BusEntry(t, "rd", call[t].reg,
                                ChipRead(call[t].reg), TRUE, bank_sel))
               /\ pc' = [pc EXCEPT ![t] = "data2"]
            \/ /\ ret' = [ret EXCEPT ![t] = EIO]
               /\ bus' = Append(bus, BusEntry(t, "rd", call[t].reg,
                                EIO, FALSE, bank_sel))
               /\ pc' = [pc EXCEPT ![t] = "release"]
               /\ UNCHANGED hi
       ELSE /\ pc' = [pc EXCEPT ![t] = "release"]
            /\ UNCHANGED <<ret, hi, bus>>
    /\ UNCHANGED <<bank_sel, bank_lock, chipBank, chipReg, call, opid, nops, rest>>

\* the two bytes composed the other way round
Compose16_swapped(hibyte, lobyte) == lobyte * 256 + hibyte

\* ret |= hi << 8, for two bytes: the bits do not overlap
Compose16(hibyte, lobyte) == hibyte * 256 + lobyte

read_reg16_second(t) ==
    /\ pc[t] = "data2"
    /\ \/ /\ ret' = [ret EXCEPT ![t] =
                        Compose16(hi[t], ChipRead(call[t].reg + 1))]
          /\ bus' = Append(bus, BusEntry(t, "rd", call[t].reg + 1,
                           ChipRead(call[t].reg + 1), TRUE, bank_sel))
       \/ /\ ret' = [ret EXCEPT ![t] = EIO]
          /\ bus' = Append(bus, BusEntry(t, "rd", call[t].reg + 1,
                           EIO, FALSE, bank_sel))
    /\ pc' = [pc EXCEPT ![t] = "release"]
    /\ UNCHANGED <<bank_sel, bank_lock, chipBank, chipReg, call, hi, opid, nops, rest>>

(***************************************************************************)
(* nct7904_write_reg: one byte write when the bank was selected.  A failed *)
(* transfer may or may not have reached the chip.                          *)
(***************************************************************************)
write_reg_data(t) ==
    /\ pc[t] = "data"
    /\ call[t].kind = "writeByte"
    /\ IF ret[t] = 0
       THEN \/ /\ chipReg' = ChipWritten(call[t].reg, call[t].val)
               /\ ret' = [ret EXCEPT ![t] = 0]
               /\ bus' = Append(bus, BusEntry(t, "wr", call[t].reg,
                                call[t].val, TRUE, bank_sel))
            \/ /\ chipReg' \in {chipReg, ChipWritten(call[t].reg, call[t].val)}
               /\ ret' = [ret EXCEPT ![t] = EIO]
               /\ bus' = Append(bus, BusEntry(t, "wr", call[t].reg,
                                call[t].val, FALSE, bank_sel))
       ELSE UNCHANGED <<chipReg, ret, bus>>
    /\ pc' = [pc EXCEPT ![t] = "release"]
    /\ UNCHANGED <<bank_sel, bank_lock, chipBank, call, hi, opid, nops, rest>>

\* mutex_unlock skipped when the operation failed
bank_release_leak_on_error(t) ==
    /\ pc[t] = "release"
    /\ bank_lock' = IF ret[t] < 0 THEN bank_lock ELSE 0
    /\ pc' = [pc EXCEPT ![t] = "done"]
    /\ UNCHANGED <<bank_sel, chipBank, chipReg, call, ret, hi, opid, nops, bus, rest>>

(***************************************************************************)
(* nct7904_bank_release: mutex_unlock, then the accessor returns ret.      *)
(***************************************************************************)
bank_release(t) ==
    /\ pc[t] = "release"
    /\ bank_lock' = 0
    /\ pc' = [pc EXCEPT ![t] = "done"]
    /\ UNCHANGED <<bank_sel, chipBank, chipReg, call, ret, hi, opid, nops, bus, rest>>

(***************************************************************************)
(* Callers of the accessor: any thread may start any accessor call on one  *)
(* of the banks and registers the driver uses, and picks up the result.    *)
(***************************************************************************)
AccBanks == {BANK_0, BANK_3}
AccRegs == {FANCTL1_OUT_REG}
AccVals == {170}
AccKinds == {"readByte", "readWord", "writeByte"}

AccCall(t) ==
    /\ pc[t] \in {"idle", "done"}
    /\ nops + Cardinality({u \in Threads : pc[u] = "lock"}) < MaxOps
    /\ \E k \in AccKinds, b \in AccBanks, r \in AccRegs, v \in AccVals :
          call' = [call EXCEPT ![t] =
                      [kind |-> k, bank |-> b, reg |-> r, val |-> v]]
    /\ pc' = [pc EXCEPT ![t] = "lock"]
    /\ ret' = [ret EXCEPT ![t] = 0]
    /\ hi' = [hi EXCEPT ![t] = 0]
    /\ opid' = [opid EXCEPT ![t] = 0]
    /\ UNCHANGED <<bank_sel, bank_lock, chipBank, chipReg, nops, bus, rest>>

\* every register cell holds a value of its own, so that a read of the
\* wrong bank is seen in the data
AccChipInit == [c \in Banks \X {FANCTL1_OUT_REG, FANCTL1_OUT_REG + 1} |->
                   c[1] * 2 + (c[2] - FANCTL1_OUT_REG)]

NoReq == [dir |-> "none", type |-> "none", attr |-> "none",
          channel |-> 0, val |-> 0, index |-> 0]

\* the part of the state a specification does not use stays as here
\* devm_kzalloc: every field of the device data starts at zero
DataZero ==
    /\ fanin_mask = 0
    /\ vsen_mask = 0
    /\ tcpu_mask = 0
    /\ enable_dts = 0
    /\ has_dts = 0
    /\ fan_mode = [c \in 0..(FANCTL_MAX - 1) |-> 0]

ProbeOff ==
    /\ probe_pc = "off"
    /\ probe_i = 0
    /\ mask = 0
    /\ probe_ret = 0
    /\ registered = FALSE
    /\ tcpu_tent = 0

NoVis == [type |-> "none", attr |-> "none", channel |-> 0, index |-> 0,
          mode |-> 0]

\* nct7904_detect is not followed
DetectOff ==
    /\ det_pc = "off"
    /\ det_ret = 0
    /\ det_func = TRUE
    /\ info_type = "nct7904"

MonIdle ==
    /\ DetectOff
    /\ vis = NoVis
    /\ req = [t \in Threads |-> NoReq]
    /\ out = [t \in Threads |-> 0]

RestIdle == DataZero /\ ProbeOff /\ MonIdle

\* nct7904_probe, lines 480-482: the lock is free and no bank is known
ThreadsIdle ==
    /\ bank_sel = BankUnknown
    /\ bank_lock = 0
    /\ pc = [t \in Threads |-> "idle"]
    /\ call = [t \in Threads |-> NoCall]
    /\ ret = [t \in Threads |-> 0]
    /\ hi = [t \in Threads |-> 0]
    /\ opid = [t \in Threads |-> 0]
    /\ nops = 0
    /\ bus = <<>>

Init ==
    /\ ThreadsIdle
    /\ chipBank \in Banks
    /\ chipReg = AccChipInit
    /\ RestIdle

Next ==
    \E t \in Threads :
        \/ AccCall(t)
        \/ mutex_lock(t)
        \/ bank_lock_select(t)
        \/ read_reg_data(t)
        \/ read_reg16_first(t)
        \/ read_reg16_second(t)
        \/ write_reg_data(t)
        \/ bank_release(t)

Spec == Init /\ [][Next]_vars

(***************************************************************************)
(* Reading the bus history.                                                *)
(***************************************************************************)
BusIdx == 1..Len(bus)
IsData(e) == e.kind \in {"rd", "wr"}
IsSel(e) == e.kind = "sel"
SelCount(o) == Cardinality({i \in BusIdx : IsSel(bus[i]) /\ bus[i].op = o})
FailureFree == \A i \in BusIdx : bus[i].ok
\* the thread is past the bank selection of its call
PastSel(t) == pc[t] \in {"data", "data2", "release", "done"}
\* the bank of operation o, read off its transactions
BankOfOp(o) == bus[CHOOSE i \in BusIdx : bus[i].op = o].want

(***************************************************************************)
(* C1: every data-register read or write on the bus is issued while the    *)
(* chip's bank-select register equals the bank the operation asked for,    *)
(* and whenever bank_sel is not -1 it equals the chip's bank-select        *)
(* register, under any interleaving and any transport failures.            *)
(***************************************************************************)
C1_BankCoherent ==
    /\ \A i \in BusIdx : IsData(bus[i]) => bus[i].chip = bus[i].want
    /\ bank_sel # BankUnknown => bank_sel = chipBank

\* a failed bank-select write that reached the chip, and a data transfer
\* of a later operation after it
C1_Witness ==
    \E i \in BusIdx : \E j \in BusIdx :
        /\ i + 1 < j
        /\ IsSel(bus[i]) /\ ~bus[i].ok
        /\ bus[i].chip # bus[i].want
        /\ bus[i + 1].chip = bus[i].want
        /\ IsData(bus[j])
        /\ bus[j].want # bus[i].want

(***************************************************************************)
(* C2: in a failure-free run from the unknown cache, an operation issues   *)
(* a bank-select write iff its bank differs from the bank of the operation *)
(* before it (any bank for the first one), and never more than one: two    *)
(* consecutive operations on one bank issue one bank-select between them.  *)
(***************************************************************************)
C2_OneSelectPerChange ==
    \A t \in Threads :
        (PastSel(t) /\ FailureFree) =>
            SelCount(opid[t]) =
                IF opid[t] = 1 \/ BankOfOp(opid[t] - 1) # call[t].bank
                THEN 1 ELSE 0

\* three operations without failure: the second on the bank of the first
\* (no bank-select), the third on another bank (one bank-select)
C2_Witness ==
    /\ FailureFree
    /\ nops = 3
    /\ \E t \in Threads : pc[t] = "done" /\ opid[t] = 3
    /\ SelCount(1) = 1 /\ SelCount(2) = 0 /\ SelCount(3) = 1

(***************************************************************************)
(* C3: a failed bank-select leaves bank_sel at -1, the operation returns   *)
(* the error and puts no data transfer on the bus, and the next transfer   *)
(* on the bus is the bank-select of the next operation, whatever bank it   *)
(* asks for; a failed data transfer leaves bank_sel as it was.             *)
(***************************************************************************)
C3_SelectFailure ==
    /\ \A i \in BusIdx : (IsSel(bus[i]) /\ ~bus[i].ok) =>
          /\ bus[i].after = BankUnknown
          /\ \A j \in BusIdx : j # i => bus[j].op # bus[i].op
          /\ i < Len(bus) => IsSel(bus[i + 1])
          /\ i = Len(bus) => bank_sel = BankUnknown
          /\ \A t \in Threads :
                (opid[t] = bus[i].op /\ pc[t] \in {"release", "done"}) =>
                    ret[t] = EIO
    /\ \A i \in BusIdx : IsData(bus[i]) =>
          /\ bus[i].after = bus[i].before
          /\ i = Len(bus) => bank_sel = bus[i].before

\* a data transfer failed and left bank b cached, the select of another
\* bank then failed, and the next operation asked for b again and selected
\* it anew
C3_Witness ==
    \E i \in BusIdx :
        /\ i < Len(bus)
        /\ IsSel(bus[i]) /\ ~bus[i].ok
        /\ bus[i].before # BankUnknown
        /\ IsSel(bus[i + 1]) /\ bus[i + 1].want = bus[i].before
        /\ \E k \in 1..(i - 1) : IsData(bus[k]) /\ ~bus[k].ok
        /\ \E t \in Threads : pc[t] = "done" /\ opid[t] = bus[i].op
                                               /\ ret[t] = EIO

(***************************************************************************)
(* C4: the transactions of one operation are contiguous on the bus: no     *)
(* transaction of another operation lies between two of them; at most one  *)
(* thread is between mutex_lock and mutex_unlock, and it owns the lock; in *)
(* particular the two byte reads of a word read are adjacent.              *)
(***************************************************************************)
InCritical(t) == pc[t] \in {"sel", "data", "data2", "release"}

C4_OneInFlight ==
    /\ \A i \in BusIdx : \A k \in BusIdx :
          (i < k /\ bus[i].op = bus[k].op) =>
              \A j \in i..k : bus[j].op = bus[i].op
    /\ \A t \in Threads : InCritical(t) => bank_lock = t
    /\ \A t \in Threads :
          pc[t] = "data2" => (Len(bus) > 0 /\ bus[Len(bus)].op = opid[t]
                               /\ bus[Len(bus)].reg = call[t].reg)

\* one thread is between the two byte reads of a word read while another
\* waits for the lock
C4_Witness ==
    \E t \in Threads : \E u \in Threads :
        /\ t # u
        /\ pc[t] = "data2"
        /\ pc[u] = "lock"
        /\ Len(bus) > 2

(***************************************************************************)
(* The word read on its own: one thread reads the two registers of the     *)
(* first fan (FANIN1_HV_REG and the next one), which hold any two bytes.   *)
(***************************************************************************)
WordChip(a, b) ==
    [c \in Banks \X {FANIN1_HV_REG, FANIN1_HV_REG + 1} |->
        IF c[1] # BANK_0 THEN 0 ELSE IF c[2] = FANIN1_HV_REG THEN a ELSE b]

WordCall(t) ==
    /\ pc[t] = "idle"
    /\ call' = [call EXCEPT ![t] = [kind |-> "readWord", bank |-> BANK_0,
                                    reg |-> FANIN1_HV_REG, val |-> 0]]
    /\ pc' = [pc EXCEPT ![t] = "lock"]
    /\ UNCHANGED <<bank_sel, bank_lock, chipBank, chipReg, ret, hi, opid,
                   nops, bus, rest>>

InitWord ==
    /\ ThreadsIdle
    /\ chipBank = BANK_3
    /\ \E a \in Byte, b \in Byte : chipReg = WordChip(a, b)
    /\ RestIdle

NextWord ==
    \E t \in {1} :
        \/ WordCall(t)
        \/ mutex_lock(t)
        \/ bank_lock_select(t)
        \/ read_reg16_first(t)
        \/ read_reg16_second(t)
        \/ bank_release(t)

SpecWord == InitWord /\ [][NextWord]_vars

\* the data transfers of the bus history, in order
RECURSIVE DataRegs(_)
DataRegs(i) ==
    IF i > Len(bus) THEN <<>>
    ELSE IF IsData(bus[i]) THEN <<bus[i].reg>> \o DataRegs(i + 1)
    ELSE DataRegs(i + 1)

WordDone == pc[1] = "done" /\ call[1].kind = "readWord"

(***************************************************************************)
(* C5 as amended: a word read reads reg, then reg + 1, and returns         *)
(* (byte(reg) << 8) | byte(reg + 1): the byte at reg is the high byte.  If *)
(* the bank selection or either byte read fails the error is returned, and *)
(* after a failed first read the second is not issued.                     *)
(***************************************************************************)
C5_WordBigEndian ==
    WordDone =>
        LET r == call[1].reg IN
        /\ DataRegs(1) \in {<<>>, <<r>>, <<r, r + 1>>}
        /\ FailureFree =>
              /\ DataRegs(1) = <<r, r + 1>>
              /\ ret[1] = chipReg[<<BANK_0, r>>] * 256
                             + chipReg[<<BANK_0, r + 1>>]
        /\ ~FailureFree =>
              /\ ret[1] = EIO
              /\ ~bus[Len(bus)].ok

\* register reg holds 1, register reg + 1 holds 2, and the word read
\* returned 0x0102
C5_Witness ==
    /\ WordDone
    /\ FailureFree
    /\ chipReg[<<BANK_0, FANIN1_HV_REG>>] = 1
    /\ chipReg[<<BANK_0, FANIN1_HV_REG + 1>>] = 2
    /\ ret[1] = 258

(***************************************************************************)
(* C5 as stated: the word is composed as low = byte(reg),                  *)
(* high = byte(reg + 1), raw = low | (high << 8).                          *)
(***************************************************************************)
C5_WordLittleEndian ==
    (WordDone /\ FailureFree) =>
        ret[1] = chipReg[<<BANK_0, call[1].reg>>]
                   + chipReg[<<BANK_0, call[1].reg + 1>>] * 256

(***************************************************************************)
(* Bit operations on naturals, as C computes them on unsigned values.      *)
(***************************************************************************)
RECURSIVE BitAnd(_, _)
BitAnd(a, b) ==
    IF a = 0 \/ b = 0 THEN 0
    ELSE (a % 2) * (b % 2) + 2 * BitAnd(a \div 2, b \div 2)

RECURSIVE BitOr(_, _)
BitOr(a, b) ==
    IF a = 0 THEN b
    ELSE IF b = 0 THEN a
    ELSE (IF a % 2 = 1 \/ b % 2 = 1 THEN 1 ELSE 0)
           + 2 * BitOr(a \div 2, b \div 2)

Shl(a, n) == a * 2 ^ n
Shr(a, n) == a \div 2 ^ n
BitSet(a, i) == (a \div 2 ^ i) % 2 = 1
\* a & ~bit, for a single bit
ClearBits(a, bit) == a - BitAnd(a, bit)

\* (ret >> 8) | ((ret & 0xff) << 8)
Swap16(w) == BitOr(Shr(w, 8), Shl(BitAnd(w, 255), 8))

(***************************************************************************)
(* nct7904_probe, lines 507-526: the tentative CPU_TEMP bits from          *)
(* VT_ADC_CTRL0_REG and the LTD bit from VT_ADC_CTRL2_REG.                 *)
(***************************************************************************)
TcpuFromCtrl0(m, r) ==
    LET m1 == IF BitAnd(r, 6) = 6 THEN BitOr(m, 1) ELSE m
        m2 == IF BitAnd(r, 24) = 24 THEN BitOr(m1, 2) ELSE m1
        m3 == IF BitAnd(r, 32) = 32 THEN BitOr(m2, 4) ELSE m2
    IN  IF BitAnd(r, 128) = 128 THEN BitOr(m3, 8) ELSE m3

TcpuFromCtrl2(m, r) == IF BitAnd(r, 2) = 2 THEN BitOr(m, 16) ELSE m

(***************************************************************************)
(* nct7904_probe, lines 533-538: the multi-function loop.                  *)
(*   val = (ret & (0x03 << i)) >> (i * 2);  bit = (1 << i);                *)
(*   if (val == 0) data->tcpu_mask &= ~bit;                                *)
(***************************************************************************)
MultiFuncVal(r, i) == Shr(BitAnd(r, Shl(3, i)), i * 2) % 256

RECURSIVE MultiFuncLoop(_, _, _)
MultiFuncLoop(m, r, i) ==
    IF i >= 4 THEN m
    ELSE MultiFuncLoop(IF MultiFuncVal(r, i) = 0
                       THEN ClearBits(m, Shl(1, i) % 256) ELSE m,
                       r, i + 1)

(***************************************************************************)
(* nct7904_probe as a sequence of accessor calls made by thread 1: the     *)
(* call of each step, and what the probe does with its result.             *)
(***************************************************************************)
ProbeThread == 1

ByteRead(bank, reg) == [kind |-> "readByte", bank |-> bank, reg |-> reg, val |-> 0]
WordRead(bank, reg) == [kind |-> "readWord", bank |-> bank, reg |-> reg, val |-> 0]

ProbeCallOf(step, i) ==
    CASE step = "fanin"  -> WordRead(BANK_0, FANIN_CTRL0_REG)
      [] step = "vsen01" -> WordRead(BANK_0, VT_ADC_CTRL0_REG)
      [] step = "vsen2"  -> ByteRead(BANK_0, VT_ADC_CTRL2_REG)
      [] step = "tcpu"   -> ByteRead(BANK_0, VT_ADC_CTRL0_REG)
      [] step = "ltd"    -> ByteRead(BANK_0, VT_ADC_CTRL2_REG)
      [] step = "md"     -> ByteRead(BANK_0, VT_ADC_MD_REG)
      [] step = "pfe"    -> ByteRead(BANK_2, PFE_REG)
      [] step = "tsi"    -> ByteRead(BANK_2, TSI_CTRL_REG)
      [] step = "dts0"   -> ByteRead(BANK_0, DTS_T_CTRL0_REG)
      [] step = "dts1"   -> ByteRead(BANK_0, DTS_T_CTRL1_REG)
      [] step = "fmr"    -> ByteRead(BANK_3, FANCTL1_FMR_REG + i)

ProbeReads == {"fanin", "vsen01", "vsen2", "tcpu", "ltd", "md", "pfe", "tsi",
               "dts0", "dts1", "fmr"}

ProbeCall ==
    /\ probe_pc \in ProbeReads
    /\ pc[ProbeThread] = "idle"
    /\ call' = [call EXCEPT ![ProbeThread] = ProbeCallOf(probe_pc, probe_i)]
    /\ pc' = [pc EXCEPT ![ProbeThread] = "lock"]
    /\ UNCHANGED <<bank_sel, bank_lock, chipBank, chipReg, ret, hi, opid,
                   nops, bus, rest>>

\* 'return ret' out of the probe: devm frees the data, nothing is registered
ProbeAbort(r) ==
    /\ probe_ret' = r
    /\ probe_pc' = "done"
    /\ UNCHANGED <<dataVars, probe_i, mask, registered, tcpu_tent>>

ProbeRet_vsen_aborts ==
    LET r == ret[ProbeThread] IN
    /\ pc[ProbeThread] = "done"
    /\ probe_pc \in {"vsen01", "vsen2"}
    /\ IF r < 0 THEN ProbeAbort(r)
       ELSE IF probe_pc = "vsen01"
       THEN /\ mask' = Swap16(r)
            /\ probe_pc' = "vsen2"
            /\ UNCHANGED <<dataVars, probe_i, probe_ret, registered, tcpu_tent>>
       ELSE /\ mask' = BitOr(mask, Shl(r, 16))
            /\ vsen_mask' = mask'
            /\ probe_pc' = "tcpu"
            /\ UNCHANGED <<fanin_mask, tcpu_mask, enable_dts, has_dts, fan_mode,
                           probe_i, probe_ret, registered, tcpu_tent>>
    /\ pc' = [pc EXCEPT ![ProbeThread] = "idle"]
    /\ UNCHANGED <<bank_sel, bank_lock, chipBank, chipReg, call, ret, hi,
                   opid, nops, bus, monVars, detVars>>

\* lines 498-505: a failed read of the voltage enable registers is passed
\* over, the bits it would have given stay 0
ProbeRet_vsen ==
    LET r == ret[ProbeThread] IN
    /\ pc[ProbeThread] = "done"
    /\ probe_pc \in {"vsen01", "vsen2"}
    /\ IF probe_pc = "vsen01"
       THEN /\ mask' = IF r >= 0 THEN Swap16(r) ELSE 0
            /\ probe_pc' = "vsen2"
            /\ UNCHANGED <<dataVars, probe_i, probe_ret, registered, tcpu_tent>>
       ELSE /\ mask' = IF r >= 0 THEN BitOr(mask, Shl(r, 16)) ELSE mask
            /\ vsen_mask' = mask'
            /\ probe_pc' = "tcpu"
            /\ UNCHANGED <<fanin_mask, tcpu_mask, enable_dts, has_dts, fan_mode,
                           probe_i, probe_ret, registered, tcpu_tent>>
    /\ pc' = [pc EXCEPT ![ProbeThread] = "idle"]
    /\ UNCHANGED <<bank_sel, bank_lock, chipBank, chipReg, call, ret, hi,
                   opid, nops, bus, monVars, detVars>>

\* any non-zero byte taken for an enabled function
DtsEnabledBy_nonzero(r) == r # 0

\* if (ret & 0x80): the top bit of the PECI or TSI control byte
DtsEnabledBy(r) == BitAnd(r, 128) # 0

\* every other read of the probe: 'if (ret < 0) return ret;'
ProbeRet ==
    LET r == ret[ProbeThread] IN
    /\ pc[ProbeThread] = "done"
    /\ probe_pc \in ProbeReads \ {"vsen01", "vsen2"}
    /\ IF r < 0 THEN ProbeAbort(r)
       ELSE CASE probe_pc = "fanin" ->
                 /\ fanin_mask' = Swap16(r)
                 /\ probe_pc' = "vsen01"
                 /\ mask' = 0
                 /\ UNCHANGED <<vsen_mask, tcpu_mask, enable_dts, has_dts,
                                fan_mode, probe_i, probe_ret, registered,
                                tcpu_tent>>
              [] probe_pc = "tcpu" ->
                 /\ tcpu_mask' = TcpuFromCtrl0(tcpu_mask, r)
                 /\ probe_pc' = "ltd"
                 /\ UNCHANGED <<fanin_mask, vsen_mask, enable_dts, has_dts,
                                fan_mode, probe_i, mask, probe_ret, registered,
                                tcpu_tent>>
              [] probe_pc = "ltd" ->
                 /\ tcpu_mask' = TcpuFromCtrl2(tcpu_mask, r)
                 /\ probe_pc' = "md"
                 /\ UNCHANGED <<fanin_mask, vsen_mask, enable_dts, has_dts,
                                fan_mode, probe_i, mask, probe_ret, registered,
                                tcpu_tent>>
              [] probe_pc = "md" ->
                 /\ tcpu_tent' = tcpu_mask
                 /\ tcpu_mask' = MultiFuncLoop(tcpu_mask, r, 0)
                 /\ probe_pc' = "pfe"
                 /\ UNCHANGED <<fanin_mask, vsen_mask, enable_dts, has_dts,
                                fan_mode, probe_i, mask, probe_ret, registered>>
              [] probe_pc = "pfe" ->
                 /\ enable_dts' = IF DtsEnabledBy(r) THEN 1 ELSE enable_dts
                 /\ probe_pc' = IF DtsEnabledBy(r) THEN "dts0" ELSE "tsi"
                 /\ UNCHANGED <<fanin_mask, vsen_mask, tcpu_mask, has_dts,
                                fan_mode, probe_i, mask, probe_ret, registered,
                                tcpu_tent>>
              [] probe_pc = "tsi" ->
                 /\ enable_dts' = IF DtsEnabledBy(r) THEN 3 ELSE enable_dts
                 /\ probe_pc' = IF enable_dts' # 0 THEN "dts0" ELSE "fmr"
                 /\ UNCHANGED <<fanin_mask, vsen_mask, tcpu_mask, has_dts,
                                fan_mode, probe_i, mask, probe_ret, registered,
                                tcpu_tent>>
              [] probe_pc = "dts0" ->
                 /\ has_dts' = BitAnd(r, 15)
                 /\ probe_pc' = IF BitAnd(enable_dts, 2) # 0 THEN "dts1" ELSE "fmr"
                 /\ UNCHANGED <<fanin_mask, vsen_mask, tcpu_mask, enable_dts,
                                fan_mode, probe_i, mask, probe_ret, registered,
                                tcpu_tent>>
              [] probe_pc = "dts1" ->
                 /\ has_dts' = BitOr(has_dts, Shl(BitAnd(r, 15), 4)) % 256
                 /\ probe_pc' = "fmr"
                 /\ UNCHANGED <<fanin_mask, vsen_mask, tcpu_mask, enable_dts,
                                fan_mode, probe_i, mask, probe_ret, registered,
                                tcpu_tent>>
              [] probe_pc = "fmr" ->
                 /\ fan_mode' = [fan_mode EXCEPT ![probe_i] = r % 256]
                 /\ probe_i' = IF probe_i + 1 < FANCTL_MAX THEN probe_i + 1 ELSE 0
                 /\ probe_pc' = IF probe_i + 1 < FANCTL_MAX THEN "fmr" ELSE "register"
                 /\ UNCHANGED <<fanin_mask, vsen_mask, tcpu_mask, enable_dts,
                                has_dts, mask, probe_ret, registered, tcpu_tent>>
    /\ pc' = [pc EXCEPT ![ProbeThread] = "idle"]
    /\ UNCHANGED <<bank_sel, bank_lock, chipBank, chipReg, call, ret, hi,
                   opid, nops, bus, monVars, detVars>>

\* the hwmon core is out of the file: it registers the device or fails
ENOMEM == -12

\* lines 575-578: devm_hwmon_device_register_with_info, PTR_ERR_OR_ZERO
ProbeRegister ==
    /\ probe_pc = "register"
    /\ \/ /\ registered' = TRUE
          /\ probe_ret' = 0
       \/ /\ registered' = FALSE
          /\ probe_ret' = ENOMEM
    /\ probe_pc' = "done"
    /\ UNCHANGED <<accVars, dataVars, probe_i, mask, tcpu_tent, monVars, detVars>>

(***************************************************************************)
(* The chip's control registers as the probe finds them.  A chip is given  *)
(* by the bytes of VT_ADC_CTRL0, VT_ADC_MD, PFE and TSI_CTRL and the mode  *)
(* byte of the first fan control; the other registers hold fixed bytes.    *)
(***************************************************************************)
ProbeRegNums == {VT_ADC_CTRL0_REG, VT_ADC_CTRL0_REG + 1, VT_ADC_CTRL2_REG,
                 FANIN_CTRL0_REG, FANIN_CTRL0_REG + 1, DTS_T_CTRL0_REG,
                 DTS_T_CTRL1_REG, VT_ADC_MD_REG, TSI_CTRL_REG}
                \cup (FANCTL1_FMR_REG..(FANCTL1_FMR_REG + FANCTL_MAX - 1))

ProbeChip(c0, md, pfe, tsi, fm) ==
    [c \in Banks \X ProbeRegNums |->
        CASE c = <<BANK_0, VT_ADC_CTRL0_REG>>     -> c0
          [] c = <<BANK_0, VT_ADC_CTRL0_REG + 1>> -> 255
          [] c = <<BANK_0, VT_ADC_CTRL2_REG>>     -> 3
          [] c = <<BANK_0, FANIN_CTRL0_REG>>      -> 255
          [] c = <<BANK_0, FANIN_CTRL0_REG + 1>>  -> 15
          [] c = <<BANK_0, DTS_T_CTRL0_REG>>      -> 5
          [] c = <<BANK_0, DTS_T_CTRL1_REG>>      -> 10
          [] c = <<BANK_0, VT_ADC_MD_REG>>        -> md
          [] c = <<BANK_2, PFE_REG>>              -> pfe
          [] c = <<BANK_2, TSI_CTRL_REG>>         -> tsi
          [] c = <<BANK_3, FANCTL1_FMR_REG>>      -> fm
          [] c = <<BANK_3, FANCTL1_FMR_REG + 1>>  -> 17
          [] c = <<BANK_3, FANCTL1_FMR_REG + 2>>  -> 0
          [] c = <<BANK_3, FANCTL1_FMR_REG + 3>>  -> 255
          [] OTHER -> 0]

ProbeChips ==
    {ProbeChip(c0, md, pfe, tsi, fm) :
        c0 \in {0, 255}, md \in {0, 255}, pfe \in {0, 128},
        tsi \in {0, 128}, fm \in {0, 34}}

InitProbe ==
    /\ ThreadsIdle
    /\ chipBank \in Banks
    /\ chipReg \in ProbeChips
    /\ DataZero
    /\ probe_pc = "fanin"
    /\ probe_i = 0
    /\ mask = 0
    /\ probe_ret = 0
    /\ registered = FALSE
    /\ tcpu_tent = 0
    /\ MonIdle

NextProbe ==
    \/ ProbeCall
    \/ mutex_lock(ProbeThread)
    \/ bank_lock_select(ProbeThread)
    \/ read_reg_data(ProbeThread)
    \/ read_reg16_first(ProbeThread)
    \/ read_reg16_second(ProbeThread)
    \/ bank_release(ProbeThread)
    \/ ProbeRet_vsen
    \/ ProbeRet
    \/ ProbeRegister

SpecProbe == InitProbe /\ [][NextProbe]_vars

\* the operations of the probe with a failed transfer; the probe's
\* operations 2 and 3 are the two reads of the voltage enable registers
FailedOps == {bus[i].op : i \in {j \in BusIdx : ~bus[j].ok}}
VsenOps == {2, 3}

(***************************************************************************)
(* C6 as amended: a failed read at any step but the two reads of the       *)
(* voltage enable registers ends the probe with the error, and the device  *)
(* is not registered; a failed read of the voltage enable registers is     *)
(* passed over, the bits of vsen_mask it would have given stay 0 and the   *)
(* probe goes on, so a probe that returned the error had a failed read at  *)
(* another step.                                                           *)
(***************************************************************************)
C6_FailureAbortsButVsen ==
    /\ \A o \in FailedOps \ VsenOps :
          /\ nops = o
          /\ ~registered
          /\ probe_pc # "register"
          /\ pc[ProbeThread] = "idle" => (probe_pc = "done" /\ probe_ret = EIO)
    /\ registered => (FailedOps \subseteq VsenOps /\ probe_ret = 0)
    /\ (probe_pc = "done" /\ probe_ret = EIO) => FailedOps \ VsenOps # {}
    /\ (nops > 3 /\ 2 \in FailedOps) => vsen_mask % 65536 = 0
    /\ (nops > 3 /\ 3 \in FailedOps) => vsen_mask \div 65536 = 0

\* the read of the voltage enable word failed and the device was registered,
\* with no voltage channel among the first sixteen
C6_Witness ==
    /\ registered
    /\ 2 \in FailedOps
    /\ vsen_mask = 3 * 65536

(***************************************************************************)
(* C6 as stated: a failed read at any step of the detection sequence       *)
(* aborts the attachment: the device is never registered.                  *)
(***************************************************************************)
C6_AnyFailureAborts == FailedOps # {} => ~registered

(***************************************************************************)
(* The multi-function step on its own: the probe has read its first five   *)
(* registers from bank 0 and holds any tentative tcpu_mask (every 5-bit    *)
(* mask comes from some VT_ADC_CTRL0 and VT_ADC_CTRL2 bytes); the chip's   *)
(* VT_ADC_MD register holds any byte.                                      *)
(***************************************************************************)
InitMd ==
    /\ bank_sel = BANK_0
    /\ bank_lock = 0
    /\ chipBank = BANK_0
    /\ \E md \in Byte : chipReg = ProbeChip(255, md, 0, 0, 0)
    /\ pc = [t \in Threads |-> "idle"]
    /\ call = [t \in Threads |-> NoCall]
    /\ ret = [t \in Threads |-> 0]
    /\ hi = [t \in Threads |-> 0]
    /\ opid = [t \in Threads |-> 0]
    /\ nops = 0
    /\ bus = <<>>
    /\ fanin_mask = 0
    /\ vsen_mask = 0
    /\ tcpu_mask \in 0..31
    /\ enable_dts = 0
    /\ has_dts = 0
    /\ fan_mode = [c \in 0..(FANCTL_MAX - 1) |-> 0]
    /\ probe_pc = "md"
    /\ probe_i = 0
    /\ mask = 0
    /\ probe_ret = 0
    /\ registered = FALSE
    /\ tcpu_tent = tcpu_mask
    /\ MonIdle

\* the probe is followed up to the end of the multi-function step
MdCall == probe_pc = "md" /\ ProbeCall
MdRet == probe_pc = "md" /\ ProbeRet

NextMd ==
    \/ MdCall
    \/ mutex_lock(ProbeThread)
    \/ bank_lock_select(ProbeThread)
    \/ read_reg_data(ProbeThread)
    \/ bank_release(ProbeThread)
    \/ MdRet

SpecMd == InitMd /\ [][NextMd]_vars

\* the 2-bit sub-field at bits 2i, 2i+1 of a byte
C7_SubField(b, i) == (b \div 4 ^ i) % 4

(***************************************************************************)
(* C7 as stated: after the multi-function step, for each i in 0..3 bit i   *)
(* of tcpu_mask is cleared iff the sub-field at bits 2i, 2i+1 of the       *)
(* multi-function byte is zero, and kept otherwise; bit 4 is not changed.  *)
(***************************************************************************)
C7_VetoBySubField ==
    probe_pc = "pfe" =>
        LET md == chipReg[<<BANK_0, VT_ADC_MD_REG>>] IN
        /\ \A i \in 0..3 :
              BitSet(tcpu_mask, i) <=>
                  (BitSet(tcpu_tent, i) /\ C7_SubField(md, i) # 0)
        /\ BitSet(tcpu_mask, 4) <=> BitSet(tcpu_tent, 4)

(***************************************************************************)
(* nct7904_chan_to_index: the table, indexed from 0 in C and from 1 here.  *)
(***************************************************************************)
chan_to_index_direct17 ==
    <<0,
      0, 1, 2, 3, 4, 5, 6, 7, 8, 9, 10, 11, 12, 13, 14, 15, 16,
      18, 19, 20, 16>>

nct7904_chan_to_index ==
    <<0,
      0, 1, 2, 3, 4, 5, 6, 7, 8, 9, 10, 11, 12, 13, 14, 15,
      18, 19, 20, 16>>

\* nct7904_chan_to_index[channel]; past the end of the table the read is
\* of whatever byte lies there
ChanToIndex(channel) ==
    IF channel + 1 \in DOMAIN nct7904_chan_to_index
    THEN {nct7904_chan_to_index[channel + 1]}
    ELSE Byte

(***************************************************************************)
(* The visibility callbacks.  0444 and 0644 are the modes returned.        *)
(***************************************************************************)
S_0444 == 292
S_0644 == 420

nct7904_fan_is_visible(attr, channel) ==
    IF attr = "input" /\ BitSet(fanin_mask, channel) THEN S_0444 ELSE 0

nct7904_in_is_visible(attr, channel, index) ==
    IF channel > 0 /\ attr = "input" /\ BitSet(vsen_mask, index)
    THEN S_0444 ELSE 0

nct7904_temp_is_visible(attr, channel) ==
    IF attr = "input"
    THEN IF channel < 5
         THEN IF BitSet(tcpu_mask, channel) THEN S_0444 ELSE 0
         ELSE IF BitSet(has_dts, channel - 5) THEN S_0444 ELSE 0
    ELSE 0

nct7904_pwm_is_visible(attr, channel) ==
    IF attr \in {"input", "enable"} THEN S_0644 ELSE 0

nct7904_is_visible(type, attr, channel, index) ==
    CASE type = "in"   -> nct7904_in_is_visible(attr, channel, index)
      [] type = "fan"  -> nct7904_fan_is_visible(attr, channel)
      [] type = "pwm"  -> nct7904_pwm_is_visible(attr, channel)
      [] type = "temp" -> nct7904_temp_is_visible(attr, channel)
      [] OTHER -> 0

\* nct7904_info: the channels and attributes the hwmon core asks about
InfoTypes == {"in", "fan", "pwm", "temp"}

InfoChannels(type) ==
    CASE type = "in"   -> 0..20
      [] type = "fan"  -> 0..7
      [] type = "pwm"  -> 0..3
      [] type = "temp" -> 0..8

InfoAttrs(type) == IF type = "pwm" THEN {"input", "enable"} ELSE {"input"}

\* one call of nct7904_is_visible by the hwmon core
IsVisibleOf(type, channel, attr) ==
    /\ \E index \in (IF type = "in" THEN ChanToIndex(channel) ELSE {0}) :
          vis' = [type |-> type, attr |-> attr, channel |-> channel,
                  index |-> index,
                  mode |-> nct7904_is_visible(type, attr, channel, index)]
    /\ UNCHANGED <<accVars, dataVars, probeVars, detVars, req, out>>

IsVisible ==
    \E type \in InfoTypes :
    \E channel \in InfoChannels(type) :
    \E attr \in InfoAttrs(type) :
       IsVisibleOf(type, channel, attr)

(***************************************************************************)
(* The visibility queries on their own, after a probe that left one of a   *)
(* few masks in the device data.                                           *)
(***************************************************************************)
InitVis ==
    /\ ThreadsIdle
    /\ chipBank = BANK_3
    /\ chipReg = AccChipInit
    /\ fanin_mask = 255
    /\ vsen_mask \in {0, 65536, 87381, 1835007, 2097151}
    /\ tcpu_mask \in {0, 17, 19}
    /\ enable_dts \in {0, 1, 3}
    /\ has_dts = IF enable_dts = 0 THEN 0 ELSE IF enable_dts = 1 THEN 5 ELSE 165
    /\ fan_mode = [c \in 0..(FANCTL_MAX - 1) |-> 0]
    /\ probe_pc = "done"
    /\ probe_i = 0
    /\ mask = vsen_mask
    /\ probe_ret = 0
    /\ registered = TRUE
    /\ tcpu_tent = tcpu_mask
    /\ MonIdle

NextVis == IsVisible

SpecVis == InitVis /\ [][NextVis]_vars

(***************************************************************************)
(* C8 as amended: the table has 21 entries, for the channels 0..20 that    *)
(* nct7904_info exposes; logical channels 1..16 resolve to the physical    *)
(* indices 0..15, and 17, 18, 19, 20 to 18, 19, 20, 16: channel 20 alone   *)
(* resolves to index 16, no two channels of 1..20 share an index and no    *)
(* channel resolves to index 17.                                           *)
(***************************************************************************)
C8_ChanToIndex ==
    vis.type = "in" =>
        LET c == vis.channel IN
        /\ c \in 0..20
        /\ c + 1 \in DOMAIN nct7904_chan_to_index
        /\ c \in 1..16 => vis.index = c - 1
        /\ c \in 17..19 => vis.index = c + 1
        /\ c = 20 => vis.index = 16
        /\ vis.index # 17
        /\ \A d \in 1..20 : d # c /\ c > 0 =>
              nct7904_chan_to_index[d + 1] # vis.index
        /\ vis.mode = IF c > 0 /\ BitSet(vsen_mask, vis.index)
                      THEN S_0444 ELSE 0

\* channel 20 was asked about, resolved to index 16 and is visible, where
\* bit 16 is the only bit of vsen_mask
C8_Witness ==
    /\ vis.type = "in"
    /\ vis.channel = 20
    /\ vis.index = 16
    /\ vsen_mask = 65536
    /\ vis.mode = S_0444

(***************************************************************************)
(* C8 as stated: logical channels 1..17 resolve to the physical indices    *)
(* 0..16, and 18, 19, 20, 21 to 18, 19, 20, 16.                            *)
(***************************************************************************)
C8_ChanToIndexAsStated ==
    (vis.type = "in" /\ vis.channel \in 1..21) =>
        LET c == vis.channel IN
        /\ c \in 1..17 => vis.index = c - 1
        /\ c \in 18..20 => vis.index = c
        /\ c = 21 => vis.index = 16

(***************************************************************************)
(* The hwmon read and write callbacks.  A callback either returns an error *)
(* at once or calls one accessor and, for a read, decodes its result.      *)
(***************************************************************************)
Reject(e) == [err |-> e, call |-> NoCall]

Access(kind, bank, reg, val) ==
    [err |-> 0, call |-> [kind |-> kind, bank |-> bank, reg |-> reg, val |-> val]]

\* the u8 parameter 'val' of nct7904_write_reg
U8(v) == v % 256

nct7904_write_pwm_unchecked(r) ==
    CASE r.attr = "input" ->
            Access("writeByte", BANK_3, FANCTL1_OUT_REG + r.channel, U8(r.val))
      [] r.attr = "enable" ->
            Access("writeByte", BANK_3, FANCTL1_FMR_REG + r.channel,
                   U8(IF r.val = 2 THEN fan_mode[r.channel] ELSE 0))
      [] OTHER -> Reject(EOPNOTSUPP)

pwm_enable_mode_literal(val, channel) == val

\* val == 2 ? data->fan_mode[channel] : 0
pwm_enable_mode(val, channel) == IF val = 2 THEN fan_mode[channel] ELSE 0

nct7904_write_pwm(r) ==
    CASE r.attr = "input" ->
            IF r.val < 0 \/ r.val > 255
            THEN Reject(EINVAL)
            ELSE Access("writeByte", BANK_3, FANCTL1_OUT_REG + r.channel,
                        U8(r.val))
      [] r.attr = "enable" ->
            IF r.val < 1 \/ r.val > 2 \/ (r.val = 2 /\ fan_mode[r.channel] = 0)
            THEN Reject(EINVAL)
            ELSE Access("writeByte", BANK_3, FANCTL1_FMR_REG + r.channel,
                        U8(pwm_enable_mode(r.val, r.channel)))
      [] OTHER -> Reject(EOPNOTSUPP)

nct7904_write(r) ==
    IF r.type = "pwm" THEN nct7904_write_pwm(r) ELSE Reject(EOPNOTSUPP)

\* the two registers of a channel taken one for the other
nct7904_read_pwm_swapped(r) ==
    CASE r.attr = "input" ->
            Access("readByte", BANK_3, FANCTL1_FMR_REG + r.channel, 0)
      [] r.attr = "enable" ->
            Access("readByte", BANK_3, FANCTL1_OUT_REG + r.channel, 0)
      [] OTHER -> Reject(EOPNOTSUPP)

nct7904_read_pwm(r) ==
    CASE r.attr = "input" ->
            Access("readByte", BANK_3, FANCTL1_OUT_REG + r.channel, 0)
      [] r.attr = "enable" ->
            Access("readByte", BANK_3, FANCTL1_FMR_REG + r.channel, 0)
      [] OTHER -> Reject(EOPNOTSUPP)

nct7904_read_fan(r) ==
    IF r.attr = "input"
    THEN Access("readWord", BANK_0, FANIN1_HV_REG + r.channel * 2, 0)
    ELSE Reject(EOPNOTSUPP)

nct7904_read_in(r) ==
    IF r.attr = "input"
    THEN Access("readWord", BANK_0, VSEN1_HV_REG + r.index * 2, 0)
    ELSE Reject(EOPNOTSUPP)

nct7904_read_temp(r) ==
    IF r.attr = "input"
    THEN IF r.channel = 4
         THEN Access("readWord", BANK_0, LTD_HV_REG, 0)
         ELSE IF r.channel < 5
         THEN Access("readWord", BANK_0, TEMP_CH1_HV_REG + r.channel * 4, 0)
         ELSE Access("readWord", BANK_0,
                     T_CPU1_HV_REG + (r.channel - 5) * 2, 0)
    ELSE Reject(EOPNOTSUPP)

nct7904_read(r) ==
    CASE r.type = "in"   -> nct7904_read_in(r)
      [] r.type = "fan"  -> nct7904_read_fan(r)
      [] r.type = "pwm"  -> nct7904_read_pwm(r)
      [] r.type = "temp" -> nct7904_read_temp(r)
      [] OTHER -> Reject(EOPNOTSUPP)

Handler(r) == IF r.dir = "write" THEN nct7904_write(r) ELSE nct7904_read(r)

\* the decoding of a word or byte that an accessor returned
\* the low byte taken whole
FanCnt_wide(w) == BitOr(Shr(BitAnd(w, 65280), 3), BitAnd(w, 255))

FanCnt(w) == BitOr(Shr(BitAnd(w, 65280), 3), BitAnd(w, 31))

Raw11(w) == BitOr(Shr(BitAnd(w, 65280), 5), BitAnd(w, 7))

\* the larger scale from index 15 on
InVolt_from_15(w, index) == IF index <= 14 THEN Raw11(w) * 2 ELSE Raw11(w) * 6

InVolt(w, index) == IF index < 14 THEN Raw11(w) * 2 ELSE Raw11(w) * 6

\* the pattern taken as unsigned
TempMilli_unsigned(w) == Raw11(w) * 125

\* sign_extend32(temp, 10) * 125
TempMilli(w) ==
    (IF Raw11(w) >= 1024 THEN Raw11(w) - 2048 ELSE Raw11(w)) * 125

PwmEnable(b) == IF b # 0 THEN 2 ELSE 1

\* what a division by zero may leave in 'rpm' where it does not trap
DivZeroRpm == {0, 1350000}

\* the values a read may store through 'val'; none where the division
\* 1350000 / 0 traps
Decoded(r, w) ==
    CASE r.type = "fan" ->
            IF FanCnt(w) = 8191 THEN {0}
            ELSE IF FanCnt(w) = 0 THEN DivZeroRpm
            ELSE {1350000 \div FanCnt(w)}
      [] r.type = "in" -> {InVolt(w, r.index)}
      [] r.type = "temp" -> {TempMilli(w)}
      [] r.type = "pwm" -> IF r.attr = "enable" THEN {PwmEnable(w)} ELSE {w}

\* a callback is entered with the request r and runs up to its return or
\* up to the mutex_lock of the accessor it calls; maxops bounds the
\* accessor calls of a behaviour
MonCall(t, r, maxops) ==
    /\ pc[t] \in {"idle", "fin"}
    /\ nops + Cardinality({u \in Threads : pc[u] = "lock"}) < maxops
    /\ \E index \in (IF r.type = "in" /\ r.dir = "read"
                     THEN ChanToIndex(r.channel) ELSE {0}) :
          LET q == [r EXCEPT !.index = index] IN
          /\ req' = [req EXCEPT ![t] = q]
          /\ IF Handler(q).err # 0
             THEN /\ ret' = [ret EXCEPT ![t] = Handler(q).err]
                  /\ pc' = [pc EXCEPT ![t] = "fin"]
                  /\ call' = [call EXCEPT ![t] = NoCall]
             ELSE /\ ret' = [ret EXCEPT ![t] = 0]
                  /\ pc' = [pc EXCEPT ![t] = "lock"]
                  /\ call' = [call EXCEPT ![t] = Handler(q).call]
    /\ hi' = [hi EXCEPT ![t] = 0]
    /\ opid' = [opid EXCEPT ![t] = 0]
    /\ UNCHANGED <<bank_sel, bank_lock, chipBank, chipReg, nops, bus,
                   dataVars, probeVars, detVars, vis, out>>

\* a return that keeps the mode written by a pwm enable write in fan_mode
MonRet_updates_mode(t) ==
    /\ pc[t] = "done"
    /\ req[t].dir # "none"
    /\ IF ret[t] < 0 \/ req[t].dir = "write"
       THEN /\ pc' = [pc EXCEPT ![t] = "fin"]
            /\ fan_mode' = IF ret[t] = 0 /\ req[t].attr = "enable"
                            THEN [fan_mode EXCEPT ![req[t].channel] = call[t].val]
                            ELSE fan_mode
            /\ UNCHANGED <<ret, out>>
       ELSE /\ \E v \in Decoded(req[t], ret[t]) :
                  out' = [out EXCEPT ![t] = v]
            /\ ret' = [ret EXCEPT ![t] = 0]
            /\ pc' = [pc EXCEPT ![t] = "fin"]
            /\ UNCHANGED fan_mode
    /\ UNCHANGED <<bank_sel, bank_lock, chipBank, chipReg, call, hi, opid,
                   nops, bus, fanin_mask, vsen_mask, tcpu_mask, enable_dts,
                   has_dts, probeVars, detVars, vis, req>>

\* the accessor has returned: the callback returns its error, or 0 after a
\* read has stored the decoded value
MonRet(t) ==
    /\ pc[t] = "done"
    /\ req[t].dir # "none"
    /\ IF ret[t] < 0 \/ req[t].dir = "write"
       THEN /\ pc' = [pc EXCEPT ![t] = "fin"]
            /\ UNCHANGED <<ret, out>>
       ELSE \/ /\ \E v \in Decoded(req[t], ret[t]) :
                     out' = [out EXCEPT ![t] = v]
               /\ ret' = [ret EXCEPT ![t] = 0]
               /\ pc' = [pc EXCEPT ![t] = "fin"]
            \/ /\ req[t].type = "fan"
               /\ FanCnt(ret[t]) = 0
               /\ pc' = [pc EXCEPT ![t] = "oops"]
               /\ UNCHANGED <<ret, out>>
    /\ UNCHANGED <<bank_sel, bank_lock, chipBank, chipReg, call, hi, opid,
                   nops, bus, dataVars, probeVars, detVars, vis, req>>

Request(dir, type, attr, channel, val) ==
    [dir |-> dir, type |-> type, attr |-> attr, channel |-> channel,
     val |-> val, index |-> 0]

(***************************************************************************)
(* The callbacks after a probe that registered the device: its last reads  *)
(* were of the fan mode registers in bank 3, and fan_mode holds them.      *)
(***************************************************************************)
MonRegNums ==
    {FANCTL1_FMR_REG + c : c \in 0..(FANCTL_MAX - 1)}
    \cup {FANCTL1_OUT_REG + c : c \in 0..(FANCTL_MAX - 1)}
    \cup {VSEN1_HV_REG, VSEN1_HV_REG + 1, TEMP_CH1_HV_REG, TEMP_CH1_HV_REG + 1,
          FANIN1_HV_REG, FANIN1_HV_REG + 1}

MonChip(fm) ==
    [c \in Banks \X MonRegNums |->
        IF c[1] = BANK_3 /\ c[2] \in FANCTL1_FMR_REG..(FANCTL1_FMR_REG + FANCTL_MAX - 1)
        THEN fm[c[2] - FANCTL1_FMR_REG]
        ELSE (c[1] * 16 + c[2] * 3 + 1) % 256]

InitRegistered(fm, chip) ==
    /\ bank_sel = BANK_3
    /\ bank_lock = 0
    /\ chipBank = BANK_3
    /\ chipReg = chip
    /\ pc = [t \in Threads |-> "idle"]
    /\ call = [t \in Threads |-> NoCall]
    /\ ret = [t \in Threads |-> 0]
    /\ hi = [t \in Threads |-> 0]
    /\ opid = [t \in Threads |-> 0]
    /\ nops = 0
    /\ bus = <<>>
    /\ fanin_mask = 255
    /\ vsen_mask = 2097151
    /\ tcpu_mask = 19
    /\ enable_dts = 0
    /\ has_dts = 0
    /\ fan_mode = fm
    /\ probe_pc = "done"
    /\ probe_i = FANCTL_MAX
    /\ mask = vsen_mask
    /\ probe_ret = 0
    /\ registered = TRUE
    /\ tcpu_tent = tcpu_mask
    /\ MonIdle

InitAfterProbe(fm) == InitRegistered(fm, MonChip(fm))

\* requests of every kind: accepted and refused writes, reads of every type
MonReqs ==
    {Request("write", "pwm", "input", 0, v) : v \in {0 - 1, 255, 256}}
    \cup {Request("write", "pwm", "enable", c, v) : c \in {0, 1}, v \in 0..3}
    \cup {Request("write", ty, "input", 0, 1) : ty \in {"in", "fan", "temp", "chip"}}
    \cup {Request(d, "pwm", "other", 0, 1) : d \in {"read", "write"}}
    \cup {Request("read", ty, "other", 1, 0) : ty \in {"in", "fan", "temp", "chip"}}
    \cup {Request("read", "pwm", a, 0, 0) : a \in {"input", "enable"}}
    \cup {Request("read", "in", "input", 1, 0)}
    \cup {Request("read", ty, "input", 0, 0) : ty \in {"fan", "temp"}}

InitMon == InitAfterProbe([c \in 0..(FANCTL_MAX - 1) |-> IF c = 0 THEN 34 ELSE 0])

NextMon ==
    \E t \in Threads :
        \/ \E r \in MonReqs : MonCall(t, r, MonOps)
        \/ mutex_lock(t)
        \/ bank_lock_select(t)
        \/ read_reg_data(t)
        \/ read_reg16_first(t)
        \/ read_reg16_second(t)
        \/ write_reg_data(t)
        \/ bank_release(t)
        \/ MonRet(t)

SpecMon == InitMon /\ [][NextMon]_vars

(***************************************************************************)
(* The requests C9 is about, in its words.                                 *)
(***************************************************************************)
C9_Validation(r) ==
    /\ r.dir = "write"
    /\ r.type = "pwm"
    /\ \/ r.attr = "input" /\ r.val \notin 0..255
       \/ r.attr = "enable" /\ r.val \notin {1, 2}
       \/ r.attr = "enable" /\ r.val = 2 /\ fan_mode[r.channel] = 0

C9_Unsupported(r) ==
    \/ r.dir = "write" /\ r.type # "pwm"
    \/ r.dir = "read" /\ r.type \notin {"in", "fan", "pwm", "temp"}
    \/ r.dir \in {"read", "write"} /\ r.type = "pwm"
          /\ r.attr \notin {"input", "enable"}
    \/ r.dir = "read" /\ r.type \in {"in", "fan", "temp"} /\ r.attr # "input"

\* thread t enters a callback in this step
C9_Enters(t) ==
    /\ pc[t] \in {"idle", "fin"}
    /\ pc'[t] # pc[t] \/ req'[t] # req[t] \/ ret'[t] # ret[t]

(***************************************************************************)
(* C9: a request that is refused for its value (-EINVAL) or for its type   *)
(* or attribute (-EOPNOTSUPP) is refused in the step that enters the       *)
(* callback: nothing is put on the bus, the lock is not taken, and         *)
(* bank_sel, the chip's bank and the chip's registers are unchanged.       *)
(***************************************************************************)
C9_RefusedBeforeBus ==
    [][\A t \in Threads :
          (C9_Enters(t) /\ (C9_Validation(req'[t]) \/ C9_Unsupported(req'[t])))
          => /\ pc'[t] = "fin"
             /\ ret'[t] = IF C9_Validation(req'[t]) THEN EINVAL ELSE EOPNOTSUPP
             /\ opid'[t] = 0
             /\ UNCHANGED <<bus, nops, bank_lock, bank_sel, chipBank, chipReg,
                            out>>]_vars

\* thread 1 was refused "automatic" on channel 1, whose fan_mode is 0, while
\* thread 2 held the lock in the middle of an operation
C9_Witness ==
    /\ pc[1] = "fin"
    /\ req[1] = [Request("write", "pwm", "enable", 1, 2) EXCEPT !.index = 0]
    /\ fan_mode[1] = 0
    /\ ret[1] = EINVAL
    /\ opid[1] = 0
    /\ bank_lock = 2
    /\ pc[2] = "data"

(***************************************************************************)
(* The pwm enable requests on their own, for a few fan mode snapshots.     *)
(***************************************************************************)
PwmChans == {0, 1}

PwmReqs ==
    {Request("write", "pwm", "enable", c, v) : c \in PwmChans, v \in {1, 2}}
    \cup {Request("read", "pwm", "enable", c, 0) : c \in PwmChans}

FanModes == {<<34, 0>>, <<0, 255>>, <<1, 2>>}

InitPwm ==
    \E m \in FanModes :
        InitAfterProbe([c \in 0..(FANCTL_MAX - 1) |->
                           IF c < 2 THEN m[c + 1] ELSE 0])

NextPwm ==
    \E t \in Threads :
        \/ \E r \in PwmReqs : MonCall(t, r, MaxOps)
        \/ mutex_lock(t)
        \/ bank_lock_select(t)
        \/ read_reg_data(t)
        \/ write_reg_data(t)
        \/ bank_release(t)
        \/ MonRet(t)

SpecPwm == InitPwm /\ [][NextPwm]_vars

\* operation o wrote v to register reg of bank 3, and the write succeeded
OpWrote(o, reg, v) ==
    \E i \in BusIdx :
        /\ bus[i].op = o
        /\ bus[i].kind = "wr"
        /\ bus[i].ok
        /\ bus[i].chip = BANK_3
        /\ bus[i].reg = reg
        /\ bus[i].val = v

\* the writes to register reg before entry i of the bus history
WritesBefore(i, reg) ==
    {j \in 1..(i - 1) : bus[j].kind = "wr" /\ bus[j].reg = reg}

LastOf(S) == CHOOSE j \in S : \A k \in S : k <= j

\* what a successful read of a mode register returns: the value of the
\* last write when that write succeeded, the snapshot when there was none
C10_ReadsLastWrite ==
    \A i \in BusIdx :
        (bus[i].kind = "rd" /\ bus[i].ok) =>
            LET W == WritesBefore(i, bus[i].reg) IN
            /\ bus[i].chip = BANK_3
            /\ W = {} => bus[i].val = fan_mode[bus[i].reg - FANCTL1_FMR_REG]
            /\ (W # {} /\ bus[LastOf(W)].ok) => bus[i].val = bus[LastOf(W)].val

C10_Returned(t) ==
    (pc[t] = "fin" /\ req[t].type = "pwm" /\ req[t].attr = "enable") =>
        LET ch == req[t].channel
            reg == FANCTL1_FMR_REG + req[t].channel
            auto == req[t].dir = "write" /\ req[t].val = 2
            manual == req[t].dir = "write" /\ req[t].val = 1
        IN
        /\ (auto /\ fan_mode[ch] = 0) => (ret[t] = EINVAL /\ opid[t] = 0)
        /\ (auto /\ fan_mode[ch] # 0) =>
              /\ ret[t] \in {0, EIO}
              /\ ret[t] = 0 => OpWrote(opid[t], reg, fan_mode[ch])
        /\ manual =>
              /\ ret[t] \in {0, EIO}
              /\ ret[t] = 0 => OpWrote(opid[t], reg, 0)
        /\ (req[t].dir = "read" /\ ret[t] = 0) =>
              \E i \in BusIdx :
                 /\ bus[i].op = opid[t]
                 /\ bus[i].kind = "rd"
                 /\ bus[i].ok
                 /\ bus[i].reg = reg
                 /\ out[t] = IF bus[i].val # 0 THEN 2 ELSE 1

(***************************************************************************)
(* C10: "automatic" (2) on a channel whose fan_mode is 0 is refused with   *)
(* -EINVAL; on a channel whose fan_mode is not 0 it is never refused and,  *)
(* when no transfer fails, writes fan_mode to the channel's mode register; *)
(* "manual" (1) writes 0 there.  A read of the mode register returns what  *)
(* the last successful write left, and the enable read gives 2 for a       *)
(* non-zero register and 1 for a zero one.  fan_mode never changes, so     *)
(* this holds after any sequence of writes.                                *)
(***************************************************************************)
C10_EnableFollowsSnapshot ==
    /\ [](C10_ReadsLastWrite /\ \A t \in Threads : C10_Returned(t))
    /\ [][fan_mode' = fan_mode]_vars

\* on channel 0, whose fan_mode is 34: "manual" wrote 0, then "automatic"
\* wrote 34, then the enable read returned 2
C10_Witness ==
    /\ Len(bus) = 3
    /\ \A i \in 1..3 : bus[i].ok /\ bus[i].reg = FANCTL1_FMR_REG /\ bus[i].op = i
    /\ bus[1].kind = "wr" /\ bus[1].val = 0
    /\ bus[2].kind = "wr" /\ bus[2].val = 34
    /\ bus[3].kind = "rd" /\ bus[3].val = 34
    /\ fan_mode[0] = 34
    /\ pc[1] = "fin"
    /\ req[1].dir = "read"
    /\ ret[1] = 0
    /\ out[1] = 2

(***************************************************************************)
(* The pwm duty requests of one caller.  Its first write is of any value   *)
(* from -1 to 256; after it come reads of every channel, a fan read (which *)
(* selects bank 0), a refused write and writes to two of the channels.     *)
(***************************************************************************)
DutyThread == 1

DutyChans == 0..(FANCTL_MAX - 1)

DutyFirst ==
    {Request("write", "pwm", "input", c, v) : c \in {0, 3}, v \in (0 - 1)..256}

DutyLater ==
    {Request("read", "pwm", "input", c, 0) : c \in DutyChans}
    \cup {Request("read", "fan", "input", 0, 0)}
    \cup {Request("write", "pwm", "input", c, 256) : c \in {0, 3}}
    \cup {Request("write", "pwm", "input", c, 7) : c \in {0, 1}}

InitDuty == InitAfterProbe([c \in 0..(FANCTL_MAX - 1) |-> 0])

DutyCall ==
    \E r \in (IF nops = 0 THEN DutyFirst ELSE DutyLater) :
        MonCall(DutyThread, r, MaxOps)

NextDuty ==
    \/ DutyCall
    \/ mutex_lock(DutyThread)
    \/ bank_lock_select(DutyThread)
    \/ read_reg_data(DutyThread)
    \/ read_reg16_first(DutyThread)
    \/ read_reg16_second(DutyThread)
    \/ write_reg_data(DutyThread)
    \/ bank_release(DutyThread)
    \/ MonRet(DutyThread)

SpecDuty == InitDuty /\ [][NextDuty]_vars

IsDutyReg(reg) == \E c \in DutyChans : reg = FANCTL1_OUT_REG + c

\* a successful read of a duty register is served by bank 3 and returns the
\* value of the last write to that register when that write succeeded
C11_DutyReadsLastWrite ==
    \A i \in BusIdx :
        (bus[i].kind = "rd" /\ bus[i].ok /\ bus[i].want = BANK_3) =>
            LET W == WritesBefore(i, bus[i].reg) IN
            /\ bus[i].chip = BANK_3
            /\ IsDutyReg(bus[i].reg)
            /\ (W # {} /\ bus[LastOf(W)].ok) => bus[i].val = bus[LastOf(W)].val

C11_Returned(t) ==
    (pc[t] = "fin" /\ req[t].type = "pwm" /\ req[t].attr = "input") =>
        LET reg == FANCTL1_OUT_REG + req[t].channel IN
        /\ (req[t].dir = "write" /\ req[t].val \in 0..255) =>
              /\ ret[t] \in {0, EIO}
              /\ ret[t] = 0 => OpWrote(opid[t], reg, req[t].val)
        /\ (req[t].dir = "write" /\ req[t].val \notin 0..255) =>
              /\ ret[t] = EINVAL
              /\ opid[t] = 0
        /\ (req[t].dir = "read" /\ ret[t] = 0) =>
              \E i \in BusIdx :
                 /\ bus[i].op = opid[t]
                 /\ bus[i].kind = "rd"
                 /\ bus[i].ok
                 /\ bus[i].reg = reg
                 /\ out[t] = bus[i].val

(***************************************************************************)
(* C11: a duty write of v in 0..255 on a channel 0..3 is never refused     *)
(* and, when no transfer fails, writes v to the channel's duty register of *)
(* bank 3; a duty read returns the byte read from that register of bank 3, *)
(* which is the v of the last write to the channel, whatever bank was      *)
(* selected in between; a write of a value outside 0..255 is refused with  *)
(* -EINVAL and puts nothing on the bus, so it is not such a last write.    *)
(***************************************************************************)
C11_DutyRoundTrip ==
    /\ C11_DutyReadsLastWrite
    /\ \A t \in Threads : C11_Returned(t)
    /\ \A i \in BusIdx : bus[i].kind = "wr" => bus[i].val \in 0..255

\* 255 was written to channel 3, a fan read then selected bank 0, and the
\* duty read of channel 3 selected bank 3 again and returned 255
C11_Witness ==
    /\ Len(bus) = 6
    /\ \A i \in 1..6 : bus[i].ok
    /\ bus[1].kind = "wr" /\ bus[1].reg = FANCTL1_OUT_REG + 3 /\ bus[1].val = 255
    /\ bus[2].kind = "sel" /\ bus[2].val = BANK_0
    /\ bus[5].kind = "sel" /\ bus[5].val = BANK_3
    /\ bus[6].kind = "rd" /\ bus[6].reg = FANCTL1_OUT_REG + 3
    /\ pc[DutyThread] = "fin"
    /\ req[DutyThread] = Request("read", "pwm", "input", 3, 0)
    /\ ret[DutyThread] = 0
    /\ out[DutyThread] = 255

(***************************************************************************)
(* The probe and what comes after it: once the device is registered a      *)
(* second thread serves hwmon requests, and the hwmon core asks for the    *)
(* visibility of attributes from the registration on.                      *)
(***************************************************************************)
LifeThread == 2

\* accessor calls of a behaviour: the 14 reads of the probe and two more
LifeOps == 16

LifeChip ==
    [c \in Banks \X (ProbeRegNums \cup MonRegNums) |->
        IF c[2] \in ProbeRegNums
        THEN ProbeChip(255, 255, 0, 128, 34)[c]
        ELSE MonChip([i \in 0..(FANCTL_MAX - 1) |-> 0])[c]]

InitLife ==
    /\ ThreadsIdle
    /\ chipBank = BANK_0
    /\ chipReg = LifeChip
    /\ DataZero
    /\ probe_pc = "fanin"
    /\ probe_i = 0
    /\ mask = 0
    /\ probe_ret = 0
    /\ registered = FALSE
    /\ tcpu_tent = 0
    /\ MonIdle

LifeCall ==
    /\ registered
    /\ \E r \in MonReqs : MonCall(LifeThread, r, LifeOps)

\* a few of the attributes nct7904_info lists
LifeAttrs == {<<"in", 1>>, <<"fan", 0>>, <<"pwm", 0>>, <<"temp", 0>>,
              <<"temp", 5>>}

LifeVisible ==
    /\ probe_pc = "register" \/ registered
    /\ \E a \in LifeAttrs : IsVisibleOf(a[1], a[2], "input")

NextLife ==
    \/ ProbeCall
    \/ ProbeRet_vsen
    \/ ProbeRet
    \/ ProbeRegister
    \/ LifeCall
    \/ LifeVisible
    \/ MonRet(LifeThread)
    \/ \E t \in {ProbeThread, LifeThread} :
          \/ mutex_lock(t)
          \/ bank_lock_select(t)
          \/ read_reg_data(t)
          \/ read_reg16_first(t)
          \/ read_reg16_second(t)
          \/ write_reg_data(t)
          \/ bank_release(t)

SpecLife == InitLife /\ [][NextLife]_vars

(***************************************************************************)
(* C12: fanin_mask, vsen_mask, tcpu_mask, has_dts, enable_dts and fan_mode *)
(* are assigned by steps of the probe only, before the device is           *)
(* registered; no read, write or visibility request after that changes     *)
(* them, whether it succeeds or fails, so every answer nct7904_is_visible  *)
(* gave is the answer it gives at any later point.                         *)
(***************************************************************************)
C12_MasksFrozen ==
    /\ [][dataVars' # dataVars =>
             (~registered /\ ~registered' /\ probe_pc \in ProbeReads)]_vars
    /\ [](vis.type # "none" =>
             vis.mode = nct7904_is_visible(vis.type, vis.attr, vis.channel,
                                           vis.index))

\* after registration "manual" was written to channel 0: the chip's mode
\* register holds 0, fan_mode[0] still holds the 34 read by the probe, and a
\* temperature channel was then reported visible
C12_Witness ==
    /\ registered
    /\ pc[LifeThread] = "fin"
    /\ req[LifeThread] = Request("write", "pwm", "enable", 0, 1)
    /\ ret[LifeThread] = 0
    /\ chipReg[<<BANK_3, FANCTL1_FMR_REG>>] = 0
    /\ fan_mode[0] = 34
    /\ vis.type = "temp"
    /\ vis.mode = S_0444

(***************************************************************************)
(* The PECI / TSI / DTS steps of the probe on their own: the probe has     *)
(* read its bank 0 registers up to VT_ADC_MD, and the chip's PFE, TSI_CTRL *)
(* and DTS_T_CTRL registers hold any of a few bytes.                       *)
(***************************************************************************)
DtsBytes == {0, 10, 127, 128, 245, 255}

DtsChip(pfe, tsi, d0, d1) ==
    [ProbeChip(255, 255, pfe, tsi, 0) EXCEPT
        ![<<BANK_0, DTS_T_CTRL0_REG>>] = d0,
        ![<<BANK_0, DTS_T_CTRL1_REG>>] = d1]

InitDts ==
    /\ bank_sel = BANK_0
    /\ bank_lock = 0
    /\ chipBank = BANK_0
    /\ \E pfe \in DtsBytes, tsi \in DtsBytes, d0 \in DtsBytes, d1 \in DtsBytes :
          chipReg = DtsChip(pfe, tsi, d0, d1)
    /\ pc = [t \in Threads |-> "idle"]
    /\ call = [t \in Threads |-> NoCall]
    /\ ret = [t \in Threads |-> 0]
    /\ hi = [t \in Threads |-> 0]
    /\ opid = [t \in Threads |-> 0]
    /\ nops = 0
    /\ bus = <<>>
    /\ fanin_mask = 4095
    /\ vsen_mask = 262143
    /\ tcpu_mask = 17
    /\ enable_dts = 0
    /\ has_dts = 0
    /\ fan_mode = [c \in 0..(FANCTL_MAX - 1) |-> 0]
    /\ probe_pc = "pfe"
    /\ probe_i = 0
    /\ mask = vsen_mask
    /\ probe_ret = 0
    /\ registered = FALSE
    /\ tcpu_tent = 31
    /\ MonIdle

DtsSteps == {"pfe", "tsi", "dts0", "dts1"}

\* the probe is followed up to the first read of a fan mode register
DtsCall == probe_pc \in DtsSteps /\ ProbeCall
DtsRet == probe_pc \in DtsSteps /\ ProbeRet

NextDts ==
    \/ DtsCall
    \/ mutex_lock(ProbeThread)
    \/ bank_lock_select(ProbeThread)
    \/ read_reg_data(ProbeThread)
    \/ bank_release(ProbeThread)
    \/ DtsRet

SpecDts == InitDts /\ [][NextDts]_vars

\* the register was read from its bank
C13_WasRead(bank, reg) ==
    \E i \in BusIdx : bus[i].kind = "rd" /\ bus[i].want = bank /\ bus[i].reg = reg

(***************************************************************************)
(* C13: when the probe comes to the fan mode registers, enable_dts is 1    *)
(* (PECI) iff the top bit of the PFE byte is set, and TSI_CTRL was then    *)
(* not read; it is 3 (TSI) iff that bit is clear and the top bit of the    *)
(* TSI_CTRL byte is set; it is 0 otherwise.  has_dts is 0 when enable_dts  *)
(* is 0, the low 4 bits of DTS_T_CTRL0 for PECI, and those bits with the   *)
(* low 4 bits of DTS_T_CTRL1 in its bits 4..7 for TSI; DTS_T_CTRL1 is read *)
(* for TSI only and DTS_T_CTRL0 only when enable_dts is not 0.             *)
(***************************************************************************)
C13_DtsMode ==
    probe_pc = "fmr" =>
        LET pfe  == chipReg[<<BANK_2, PFE_REG>>]
            tsi  == chipReg[<<BANK_2, TSI_CTRL_REG>>]
            d0   == chipReg[<<BANK_0, DTS_T_CTRL0_REG>>]
            d1   == chipReg[<<BANK_0, DTS_T_CTRL1_REG>>]
            peci == pfe >= 128
            tsim == pfe < 128 /\ tsi >= 128
        IN
        /\ enable_dts = IF peci THEN 1 ELSE IF tsim THEN 3 ELSE 0
        /\ has_dts = IF peci THEN d0 % 16
                     ELSE IF tsim THEN (d0 % 16) + 16 * (d1 % 16)
                     ELSE 0
        /\ C13_WasRead(BANK_2, PFE_REG)
        /\ C13_WasRead(BANK_2, TSI_CTRL_REG) <=> ~peci
        /\ C13_WasRead(BANK_0, DTS_T_CTRL0_REG) <=> (peci \/ tsim)
        /\ C13_WasRead(BANK_0, DTS_T_CTRL1_REG) <=> tsim

\* TSI: the PFE byte is 127, the TSI_CTRL byte 128, and the presence bytes
\* 245 and 10 gave has_dts = 0xA5
C13_Witness ==
    /\ probe_pc = "fmr"
    /\ chipReg[<<BANK_2, PFE_REG>>] = 127
    /\ chipReg[<<BANK_2, TSI_CTRL_REG>>] = 128
    /\ chipReg[<<BANK_0, DTS_T_CTRL0_REG>>] = 245
    /\ chipReg[<<BANK_0, DTS_T_CTRL1_REG>>] = 10
    /\ enable_dts = 3
    /\ has_dts = 165

(***************************************************************************)
(* One sensor read after the probe.  The chip holds the bytes hv and lv in *)
(* the register pairs of bank 0 that start at the registers regs, and      *)
(* bytes of its own elsewhere.                                             *)
(***************************************************************************)
SenseChip(regs, hv, lv) ==
    [c \in Banks \X (MonRegNums \cup regs \cup {r + 1 : r \in regs}) |->
        IF c[1] = BANK_0 /\ c[2] \in regs THEN hv
        ELSE IF c[1] = BANK_0 /\ (c[2] - 1) \in regs THEN lv
        ELSE (c[1] * 16 + c[2] * 3 + 1) % 256]

NoFanMode == [c \in 0..(FANCTL_MAX - 1) |-> 0]

SenseThread == 1

\* requests of a behaviour
SenseOps == 1

(***************************************************************************)
(* The fan read of channel 3, for every word in its register pair.         *)
(***************************************************************************)
FanChan == 3

InitFan ==
    \E hv \in Byte, lv \in Byte :
        InitRegistered(NoFanMode,
                       SenseChip({FANIN1_HV_REG + FanChan * 2}, hv, lv))

FanCall == MonCall(SenseThread, Request("read", "fan", "input", FanChan, 0),
                   SenseOps)

NextFan ==
    \/ FanCall
    \/ mutex_lock(SenseThread)
    \/ bank_lock_select(SenseThread)
    \/ read_reg16_first(SenseThread)
    \/ read_reg16_second(SenseThread)
    \/ bank_release(SenseThread)
    \/ MonRet(SenseThread)

SpecFan == InitFan /\ [][NextFan]_vars

\* the period count in the fan channel's register pair: the high byte gives
\* bits 5..12, the low 5 bits of the low byte bits 0..4
C14_Count ==
    chipReg[<<BANK_0, FANIN1_HV_REG + FanChan * 2>>] * 32
    + (chipReg[<<BANK_0, FANIN1_HV_REG + FanChan * 2 + 1>>] % 32)

\* the fan read has returned 0
C14_FanRead ==
    /\ pc[SenseThread] = "fin"
    /\ req[SenseThread].type = "fan"
    /\ ret[SenseThread] = 0

C18_NoDivisionByZero ==
    ~ /\ pc[SenseThread] \in {"fin", "oops"}
      /\ req[SenseThread].type = "fan"
      /\ BitSet(fanin_mask, req[SenseThread].channel)
      /\ \E i \in BusIdx : bus[i].kind = "rd" /\ bus[i].ok
                              /\ bus[i].reg = FANIN1_HV_REG + FanChan * 2 + 1
      /\ C14_Count = 0

(***************************************************************************)
(* The voltage and temperature reads.  Every register pair they address    *)
(* holds the same word: any high byte, and a low byte with any low 3 bits  *)
(* and with or without higher bits.                                        *)
(***************************************************************************)
SenseLows == (0..8) \cup {252, 255}

\* channels on both sides of physical index 14, and the last one
InChans == {1, 14, 15, 17, 20}

\* a TR channel, the local sensor and two DTS channels
TempChans == {0, 4, 5, 8}

SenseReqs ==
    {Request("read", "in", "input", c, 0) : c \in InChans}
    \cup {Request("read", "temp", "input", c, 0) : c \in TempChans}

\* the registers these requests address
SenseRegs ==
    {VSEN1_HV_REG + nct7904_chan_to_index[c + 1] * 2 : c \in InChans}
    \cup {LTD_HV_REG}
    \cup {TEMP_CH1_HV_REG + c * 4 : c \in {d \in TempChans : d < 4}}
    \cup {T_CPU1_HV_REG + (c - 5) * 2 : c \in {d \in TempChans : d >= 5}}

InitSense ==
    \E hv \in Byte, lv \in SenseLows :
        InitRegistered(NoFanMode, SenseChip(SenseRegs, hv, lv))

SenseCall == \E r \in SenseReqs : MonCall(SenseThread, r, SenseOps)

NextSense ==
    \/ SenseCall
    \/ mutex_lock(SenseThread)
    \/ bank_lock_select(SenseThread)
    \/ read_reg16_first(SenseThread)
    \/ read_reg16_second(SenseThread)
    \/ bank_release(SenseThread)
    \/ MonRet(SenseThread)

SpecSense == InitSense /\ [][NextSense]_vars

\* a read of the given type has returned 0
SenseRead(type) ==
    /\ pc[SenseThread] = "fin"
    /\ req[SenseThread].type = type
    /\ ret[SenseThread] = 0

\* the register the two reads of the request started at
SenseReg ==
    LET I == {i \in BusIdx : bus[i].kind = "rd" /\ bus[i].op = opid[SenseThread]}
    IN bus[CHOOSE i \in I : \A j \in I : i <= j].reg

\* the 11-bit pattern of the word in that register pair: the high byte gives
\* bits 3..10, the low 3 bits of the low byte bits 0..2
SensePattern ==
    chipReg[<<BANK_0, SenseReg>>] * 8 + (chipReg[<<BANK_0, SenseReg + 1>>] % 8)

\* the physical index of a logical voltage channel 1..20
C15_Physical(c) == IF c <= 16 THEN c - 1 ELSE IF c = 20 THEN 16 ELSE c + 1

(***************************************************************************)
(* C15: a voltage read that returned 0 read the register pair of the       *)
(* channel's physical index and stored the 11-bit magnitude                *)
(* ((raw & 0xFF00) >> 5) | (raw & 0x07) times 2 when the physical index is *)
(* below 14 and times 6 when it is 14 or above.                            *)
(***************************************************************************)
C15_VoltDecode ==
    SenseRead("in") =>
        LET idx == C15_Physical(req[SenseThread].channel) IN
        /\ SenseReg = VSEN1_HV_REG + idx * 2
        /\ out[SenseThread] = SensePattern * (IF idx < 14 THEN 2 ELSE 6)

\* magnitude 100 read as 200 on logical channel 14 (physical index 13)
C15_Witness ==
    /\ SenseRead("in")
    /\ req[SenseThread].channel = 14
    /\ SensePattern = 100
    /\ out[SenseThread] = 200

\* magnitude 100 read as 600 on logical channel 15 (physical index 14)
C15_WitnessHigh ==
    /\ SenseRead("in")
    /\ req[SenseThread].channel = 15
    /\ SensePattern = 100
    /\ out[SenseThread] = 600

(***************************************************************************)
(* C16: a temperature read that returned 0 stored 125 times the 11-bit     *)
(* pattern ((raw & 0xFF00) >> 5) | (raw & 0x07) taken as a two's           *)
(* complement number, a value from -128000 to 127875: the all-ones pattern *)
(* gives -125 and the pattern 4 gives 500.                                 *)
(***************************************************************************)
C16_TempDecode ==
    SenseRead("temp") =>
        LET signed == IF SensePattern >= 1024 THEN SensePattern - 2048
                      ELSE SensePattern
        IN
        /\ out[SenseThread] = signed * 125
        /\ out[SenseThread] \in (0 - 128000)..127875
        /\ SensePattern = 2047 => out[SenseThread] = 0 - 125
        /\ SensePattern = 4 => out[SenseThread] = 500

\* the all-ones pattern was read as -125 on the local sensor's channel
C16_Witness ==
    /\ SenseRead("temp")
    /\ req[SenseThread].channel = 4
    /\ SenseReg = LTD_HV_REG
    /\ SensePattern = 2047
    /\ out[SenseThread] = 0 - 125

(***************************************************************************)
(* nct7904_detect: the functionality test, then up to four byte reads      *)
(* straight from the bus, without the bank lock; the chain of || stops at  *)
(* the first read that does not match.  The registers read are the same in *)
(* every bank, and the device at the address may be any device.            *)
(***************************************************************************)
IdRegs == {VENDOR_ID_REG, CHIP_ID_REG, DEVICE_ID_REG}

DetectChip(vendor, chip, device) ==
    [c \in Banks \X IdRegs |->
        CASE c[2] = VENDOR_ID_REG -> vendor
          [] c[2] = CHIP_ID_REG   -> chip
          [] c[2] = DEVICE_ID_REG -> device]

\* ret & mask for an int that may be a negative errno, as a byte
ByteAnd(v, m) == BitAnd(v % 256, m)

\* (ret & 0xf8) != 0x00 taken for a test of the low 3 bits
BankSelClear_low3(v) == ByteAnd(v, 7) = 0

\* (i2c_smbus_read_byte_data(client, BANK_SEL_REG) & 0xf8) == 0x00
BankSelClear(v) == ByteAnd(v, 248) = 0

DetectRegOf(step) ==
    CASE step = "vendor" -> VENDOR_ID_REG
      [] step = "chip"   -> CHIP_ID_REG
      [] step = "device" -> DEVICE_ID_REG
      [] step = "bank"   -> BANK_SEL_REG

DetectMatch(step, v) ==
    CASE step = "vendor" -> v = NUVOTON_ID
      [] step = "chip"   -> v = NCT7904_ID
      [] step = "device" -> ByteAnd(v, 240) = 80
      [] step = "bank"   -> BankSelClear(v)

DetectNext(step) ==
    CASE step = "vendor" -> "chip"
      [] step = "chip"   -> "device"
      [] step = "device" -> "bank"
      [] step = "bank"   -> "done"

\* i2c_check_functionality: the adapter has the two transfers or not
DetectFunc ==
    /\ det_pc = "func"
    /\ \E f \in BOOLEAN :
          /\ det_func' = f
          /\ det_pc' = IF f THEN "vendor" ELSE "done"
          /\ det_ret' = IF f THEN det_ret ELSE ENODEV
    /\ UNCHANGED <<accVars, dataVars, probeVars, monVars, info_type>>

\* one i2c_smbus_read_byte_data of the chain and its comparison
DetectRead ==
    /\ det_pc \in {"vendor", "chip", "device", "bank"}
    /\ \E ok \in BOOLEAN :
          LET reg == DetectRegOf(det_pc)
              v == IF ~ok THEN EIO
                   ELSE IF det_pc = "bank" THEN chipBank
                   ELSE chipReg[<<BANK_0, reg>>]
          IN
          /\ bus' = Append(bus, [op |-> 0, t |-> 0, kind |-> "rd", reg |-> reg,
                                 val |-> v, ok |-> ok, want |-> bank_sel,
                                 chip |-> chipBank, before |-> bank_sel,
                                 after |-> bank_sel])
          /\ IF DetectMatch(det_pc, v)
             THEN /\ det_pc' = DetectNext(det_pc)
                  /\ det_ret' = 0
                  /\ info_type' = IF det_pc = "bank" THEN "nct7904" ELSE info_type
             ELSE /\ det_pc' = "done"
                  /\ det_ret' = ENODEV
                  /\ UNCHANGED info_type
    /\ UNCHANGED <<bank_sel, bank_lock, chipBank, chipReg, pc, call, ret, hi,
                   opid, nops, dataVars, probeVars, monVars, det_func>>

\* bytes of the bank-select register of the device at the address
DetectBanks == {0, 3, 4, 7, 8, 128, 248, 255}

InitDetect ==
    /\ ThreadsIdle
    /\ chipBank \in DetectBanks
    /\ \E vendor \in {NUVOTON_ID, NUVOTON_ID + 1},
          chip \in {NCT7904_ID, 0},
          device \in {80, 95, 96, 5} :
          chipReg = DetectChip(vendor, chip, device)
    /\ DataZero
    /\ ProbeOff
    /\ vis = NoVis
    /\ req = [t \in Threads |-> NoReq]
    /\ out = [t \in Threads |-> 0]
    /\ det_pc = "func"
    /\ det_ret = 0
    /\ det_func = FALSE
    /\ info_type = ""

NextDetect == DetectFunc \/ DetectRead

SpecDetect == InitDetect /\ [][NextDetect]_vars

\* the reads of the chain that succeeded and matched, by register
C17_ReadOk(reg) ==
    \E i \in BusIdx : bus[i].reg = reg /\ bus[i].ok

C17_AllReadOk ==
    /\ C17_ReadOk(VENDOR_ID_REG)
    /\ C17_ReadOk(CHIP_ID_REG)
    /\ C17_ReadOk(DEVICE_ID_REG)
    /\ C17_ReadOk(BANK_SEL_REG)

C17_IdsMatch ==
    /\ chipReg[<<BANK_0, VENDOR_ID_REG>>] = 80
    /\ chipReg[<<BANK_0, CHIP_ID_REG>>] = 197
    /\ chipReg[<<BANK_0, DEVICE_ID_REG>>] \div 16 = 5

(***************************************************************************)
(* C17 as amended: detection returns 0 iff the adapter has the transfers,  *)
(* all four reads succeed, the vendor id is 0x50, the chip id 0xC5, the    *)
(* high nibble of the device id 5 and bits 3..7 of the bank-select         *)
(* register are zero (its low 3 bits, the bank number, may be anything);   *)
(* otherwise it returns -ENODEV.  Detection only reads: it writes nothing  *)
(* to the chip and leaves the selected bank alone.                         *)
(***************************************************************************)
C17_Detect ==
    /\ [](det_pc = "done" =>
            /\ det_ret \in {0, ENODEV}
            /\ det_ret = 0 <=> /\ det_func
                               /\ C17_AllReadOk
                               /\ C17_IdsMatch
                               /\ chipBank \div 8 = 0
            /\ det_ret = 0 <=> info_type = "nct7904")
    /\ [](\A i \in BusIdx : bus[i].kind = "rd")
    /\ [][UNCHANGED <<chipBank, chipReg, bank_sel, bank_lock>>]_vars

\* detection succeeded on a chip that has bank 3 selected
C17_Witness ==
    /\ det_pc = "done"
    /\ det_ret = 0
    /\ chipBank = 3
    /\ Len(bus) = 4

(***************************************************************************)
(* C17 as stated: with the transfers there, detection returns 0 iff all    *)
(* four reads succeed, the three ids match and the low 3 bits of the       *)
(* bank-select register are zero.                                          *)
(***************************************************************************)
C17_DetectAsStated ==
    (det_pc = "done" /\ det_func) =>
        (det_ret = 0 <=> /\ C17_AllReadOk
                         /\ C17_IdsMatch
                         /\ chipBank % 8 = 0)

(***************************************************************************)
(* The lock over whole operations: callers start accessor calls, every bus *)
(* transfer returns (with a value or an error), and mutex_lock hands the   *)
(* lock to every waiter in the end.                                        *)
(***************************************************************************)
LockOps == 3

LockCall(t) ==
    /\ pc[t] \in {"idle", "done"}
    /\ nops + Cardinality({u \in Threads : pc[u] = "lock"}) < LockOps
    /\ \E k \in AccKinds, b \in AccBanks :
          call' = [call EXCEPT ![t] =
                      [kind |-> k, bank |-> b, reg |-> FANCTL1_OUT_REG,
                       val |-> 170]]
    /\ pc' = [pc EXCEPT ![t] = "lock"]
    /\ ret' = [ret EXCEPT ![t] = 0]
    /\ hi' = [hi EXCEPT ![t] = 0]
    /\ opid' = [opid EXCEPT ![t] = 0]
    /\ UNCHANGED <<bank_sel, bank_lock, chipBank, chipReg, nops, bus, rest>>

\* the steps of an operation between mutex_lock and its return
LockedStep(t) ==
    \/ bank_lock_select(t)
    \/ read_reg_data(t)
    \/ read_reg16_first(t)
    \/ read_reg16_second(t)
    \/ write_reg_data(t)
    \/ bank_release(t)

NextLock ==
    \E t \in Threads :
        \/ LockCall(t)
        \/ mutex_lock(t)
        \/ LockedStep(t)

SpecLock ==
    /\ Init
    /\ [][NextLock]_vars
    /\ \A t \in Threads : SF_vars(mutex_lock(t))
    /\ \A t \in Threads : WF_vars(LockedStep(t))

\* the order of the places of one operation
C19_Stage(p) ==
    CASE p = "idle"    -> 0
      [] p = "lock"    -> 1
      [] p = "sel"     -> 2
      [] p = "data"    -> 3
      [] p = "data2"   -> 4
      [] p = "release" -> 5
      [] p = "done"    -> 6

\* what one step does to thread t and to the lock
C19_Step(t) ==
    /\ pc'[t] # pc[t] =>
          \/ pc'[t] = "lock" /\ pc[t] \in {"idle", "done"}
          \/ pc[t] # "done" /\ C19_Stage(pc'[t]) > C19_Stage(pc[t])
    /\ (pc[t] = "lock" /\ pc'[t] # "lock") =>
          /\ pc'[t] = "sel"
          /\ bank_lock = 0
          /\ bank_lock' = t
    /\ (pc'[t] = "done" /\ pc[t] # "done") =>
          /\ pc[t] = "release"
          /\ bank_lock = t
          /\ bank_lock' = 0
    /\ (bank_lock # t /\ bank_lock' = t) => pc[t] = "lock"
    /\ (bank_lock = t /\ bank_lock' # t) => pc[t] = "release"

(***************************************************************************)
(* C19: every accessor operation takes the lock exactly once, on leaving   *)
(* its wait, and gives it up exactly once, on returning, whatever the bank *)
(* selection and the data transfers returned: an operation moves forward   *)
(* through its places only, the lock changes hands only in those two       *)
(* steps, and it is free exactly when no thread is between them.  When     *)
(* every transfer returns and the lock is handed to every waiter, every    *)
(* started operation completes.                                            *)
(***************************************************************************)
C19_LockDiscipline ==
    /\ [][\A t \in Threads : C19_Step(t)]_vars
    /\ [](bank_lock = 0 <=> \A t \in Threads : ~InCritical(t))
    /\ []((\A t \in Threads : pc[t] \in {"idle", "done"}) => bank_lock = 0)
    /\ \A t \in Threads : (pc[t] = "lock") ~> (pc[t] = "done")

\* an operation whose bank selection failed has returned and the operation
\* that waited behind it has completed as well
C19_Witness ==
    \E t \in Threads : \E u \in Threads :
        /\ t # u
        /\ pc[t] = "done" /\ pc[u] = "done"
        /\ ret[t] = EIO
        /\ opid[t] = 1 /\ opid[u] = 2
        /\ \E i \in BusIdx : bus[i].op = 1 /\ IsSel(bus[i]) /\ ~bus[i].ok
        /\ bank_lock = 0

(***************************************************************************)
(* The probe followed by the visibility queries of the voltage and the     *)
(* temperature channels: which register pairs the channels that the probe  *)
(* made visible are read from.                                             *)
(***************************************************************************)
ShareChips ==
    {ProbeChip(c0, md, 0, 0, 0) :
        c0 \in {0, 6, 24, 32, 128, 255}, md \in {0, 1, 255}}

InitShare ==
    /\ ThreadsIdle
    /\ chipBank = BANK_0
    /\ chipReg \in ShareChips
    /\ DataZero
    /\ probe_pc = "fanin"
    /\ probe_i = 0
    /\ mask = 0
    /\ probe_ret = 0
    /\ registered = FALSE
    /\ tcpu_tent = 0
    /\ MonIdle

\* the hwmon core asks about the channels of a registered device
ShareVisible ==
    /\ registered
    /\ \E type \in {"in", "temp"} :
       \E channel \in InfoChannels(type) :
          IsVisibleOf(type, channel, "input")

NextShare == NextProbe \/ ShareVisible

SpecShare == InitShare /\ [][NextShare]_vars

\* the (bank, register) pair a read of the channel starts at
ReadPair(type, channel) ==
    LET r == [Request("read", type, "input", channel, 0) EXCEPT
                 !.index = IF type = "in"
                           THEN nct7904_chan_to_index[channel + 1] ELSE 0]
        a == Handler(r).call
    IN <<a.bank, a.reg>>

ChannelVisible(type, channel) ==
    nct7904_is_visible(type, "input", channel,
                       IF type = "in" THEN nct7904_chan_to_index[channel + 1]
                       ELSE 0) # 0

(***************************************************************************)
(* C20: on a registered device no visible voltage channel and visible      *)
(* temperature channel are read from the same (bank, register) pair, and   *)
(* no voltage channel is read from the register of the local-die sensor.   *)
(***************************************************************************)
C20_NoSharedPair ==
    registered =>
        /\ \A c \in InfoChannels("in") : \A d \in InfoChannels("temp") :
              (ChannelVisible("in", c) /\ ChannelVisible("temp", d)) =>
                  ReadPair("in", c) # ReadPair("temp", d)
        /\ \A c \in 1..20 : ReadPair("in", c) # <<BANK_0, LTD_HV_REG>>

\* the part of C20 about the local-die sensor, which holds
C20_LocalDieUnshared ==
    registered =>
        \A c \in 1..20 : ReadPair("in", c) # ReadPair("temp", 4)

====
